---------------------------- MODULE Spec2Model ----------------------------
(***************************************************************************)
(* ESGT ignition subsystem of maximus_core_service/consciousness/esgt:     *)
(* the Kuramoto oscillator network (kuramoto.py), the trigger validation   *)
(* (trigger_validation.py) and the sustain / dissolve phase operations     *)
(* (phase_operations.py).                                                  *)
(*                                                                         *)
(* Numbers.  Real quantities are carried in exact fixed point:             *)
(*   phase          grid units, TwoPi units = one turn (2*pi rad)          *)
(*   time, dt       milliseconds                                           *)
(*   velocity       grid units per second                                  *)
(*   dt * velocity  milli grid units (grid * ms / s)                       *)
(*   sin, cos       scaled by SinScale                                     *)
(*   r              hundredths (0 .. 100 for 0.00 .. 1.00)                 *)
(* A phase is stored on the grid, so a phase increment is rounded down to  *)
(* the grid before the wrap (x % TwoPi).  Floating point rounding is not   *)
(* modelled.                                                               *)
(***************************************************************************)
EXTENDS Integers, Sequences, FiniteSets, TLC

VARIABLES
    now,                \* time.time(), ms
    configs,            \* the OscillatorConfig objects, by identity
    kuramoto,           \* the KuramotoNetwork
    net_error,          \* what the last direct network call raised, "" if nothing
    calls,              \* number of direct network calls made so far
    triggers,           \* ESGTCoordinator.triggers, the TriggerConditions
    tig,                \* ESGTCoordinator.tig, the fabric
    last_esgt_time,     \* ESGTCoordinator.last_esgt_time, ms, 0 before any ignition
    event_history,      \* ESGTCoordinator.event_history
    trigger_result,     \* what the _check_triggers call just made returned
    igniting,           \* the coordinator's single-flight flag
    pc,                 \* where each ignition attempt (task) stands
    att,                \* each attempt's event and local variables
    cpu,                \* the task that runs and has not yet awaited, or NoTask
    ext_touched,        \* oscillators added or removed by direct calls
    running,            \* ESGTCoordinator._running
    stopped_at,         \* where the attempts in flight stood at the last stop()
    ptp                 \* the node's PTPSynchronizer

netVars == <<configs, kuramoto, net_error, calls>>
coordData == <<triggers, tig, last_esgt_time, event_history>>
taskVars == <<igniting, pc, att, cpu>>
serviceVars == <<running, stopped_at, ptp>>

-----------------------------------------------------------------------------
(* Bounds of the model *)

MaxHist == 2        \* direct API calls stop growing a history at this length
MaxSamples == 2     \* direct API calls stop growing the dynamics log here
MaxCalls == 3       \* direct API calls a run makes
MaxEvents == 3      \* ignitions a run of the trigger checks records
MaxTime == 3100     \* the clock stops here
MaxExternal == 2    \* direct calls on the network while attempts run
MaxRounds == 4      \* sync_to_master rounds a run makes
MaxBurst == 12      \* ignitions a burst run records
BurstTick == 50     \* the clock's step in a burst run, ms
RecentWindow == 2   \* offset estimates the jitter is computed over
MaxUpdates == 1001  \* update_network steps of a long run of one oscillator

-----------------------------------------------------------------------------
(* Numeric representation *)

TwoPi == 8          \* 2 * np.pi in grid units
SinScale == 10      \* scale of the sin / cos table
HISTORY_LIMIT == 1000

Nodes == {"n1", "n2"}
Attempts == {"a1", "a2"}
NoTask == "none"

\* np.sin on grid phases, scaled by SinScale (rounded toward zero)
SinTable == <<0, 7, 10, 7, 0, -7, -10, -7>>
Sin(d) == SinTable[(d % TwoPi) + 1]
Cos(d) == Sin(d + 2)

\* a milli-grid value rounded down to the grid
ToGrid(m) == m \div 1000

RECURSIVE SumOver(_, _)
SumOver(S, f) ==
    IF S = {} THEN 0
    ELSE LET x == CHOOSE y \in S : TRUE IN f[x] + SumOver(S \ {x}, f)

Isqrt(v) == CHOOSE k \in 0..(v + 1) : k * k <= v /\ (k + 1) * (k + 1) > v

RECURSIVE Pow2(_)
Pow2(h) == IF h = 0 THEN 1 ELSE 2 * Pow2(h - 1)

Range(s) == {s[i] : i \in DOMAIN s}
EmptyMap == [x \in {} |-> 0]

-----------------------------------------------------------------------------
(* kuramoto_models.OscillatorConfig objects.  An oscillator holds a          *)
(* reference to its config, so configs live in a heap indexed by identity:  *)
(* "default" is KuramotoNetwork.default_config, the others are config       *)
(* objects the caller of add_oscillator owns.                               *)

DefaultConfig == "default"
CallerConfigs == {"cfgA"}
ConfigIds == {DefaultConfig} \cup CallerConfigs

\* coupling_strength is num / 2^halvings, so that halving is always exact
Coupling(k) == [num |-> k, halvings |-> 0]

ConfigValues ==
    { [natural_frequency |-> 40, coupling_strength |-> Coupling(400),
       phase_noise |-> 0, integration_method |-> "euler"],
      [natural_frequency |-> 40, coupling_strength |-> Coupling(400),
       phase_noise |-> 200, integration_method |-> "rk4"],
      [natural_frequency |-> 25, coupling_strength |-> Coupling(0),
       phase_noise |-> 0, integration_method |-> "rk4"] }

\* the config objects a run starts with
ConfigSetups ==
    { h \in [ConfigIds -> ConfigValues] :
        h[DefaultConfig].coupling_strength.num # 0 /\ h["cfgA"] # h[DefaultConfig] }

\* samples of np.random.normal(0, phase_noise): one on each side of the mean
NoiseSamples(sigma) == IF sigma = 0 THEN {0} ELSE {-sigma, sigma}

\* samples of np.random.uniform(0, 2 * np.pi), which lies in [0, 2*pi)
RandomPhases == {3, TwoPi - 1}

-----------------------------------------------------------------------------
(* KuramotoOscillator *)

\* KuramotoOscillator.__init__
NewOscillator(config, phase) ==
    [phase |-> phase,
     frequency |-> configs[config].natural_frequency,
     state |-> "idle",
     config |-> config,
     phase_history |-> <<phase>>,
     frequency_history |-> <<configs[config].natural_frequency>>]

\* coupling_weights.get(neighbor_id, 1.0)
WeightOf(coupling_weights, neighbor_id) ==
    IF neighbor_id \in DOMAIN coupling_weights THEN coupling_weights[neighbor_id] ELSE 1

\* KuramotoOscillator._compute_phase_velocity; phases in milli grid units,
\* the result in grid units per second
compute_phase_velocity(cfg, frequency, current_phase, neighbor_phases, coupling_weights, N) ==
    LET phase_velocity == TwoPi * frequency
        terms == [n \in DOMAIN neighbor_phases |->
                     WeightOf(coupling_weights, n)
                       * Sin(ToGrid(neighbor_phases[n] - current_phase))]
        coupling_sum == SumOver(DOMAIN neighbor_phases, terms)
        coupling_term == (cfg.coupling_strength.num * coupling_sum)
                            \div (Pow2(cfg.coupling_strength.halvings) * N * SinScale)
    IN  IF DOMAIN neighbor_phases # {}
        THEN phase_velocity + coupling_term
        ELSE phase_velocity

\* mutant of WrapPhase: the new phase is stored without the wrap
WrapPhase_unwrapped(m) == ToGrid(m)

\* self.phase % (2 * np.pi), from a milli grid value
WrapPhase(m) == ToGrid(m) % TwoPi

\* the history trimming at the end of KuramotoOscillator.update
TrimHistory(h) == IF Len(h) > HISTORY_LIMIT THEN Tail(h) ELSE h

\* KuramotoOscillator.update; neighbor_phases in grid units, Narg is <<>> for
\* N = None and <<n>> otherwise, noise the sample of np.random.normal
osc_update(osc, neighbor_phases, coupling_weights, dt, Narg, noise) ==
    LET cfg == configs[osc.config]
        N == IF Narg = <<>>
             THEN (IF DOMAIN neighbor_phases # {}
                   THEN Cardinality(DOMAIN neighbor_phases) ELSE 1)
             ELSE Narg[1]
        nb == [n \in DOMAIN neighbor_phases |-> 1000 * neighbor_phases[n]]
        vel(p) == compute_phase_velocity(cfg, osc.frequency, p, nb, coupling_weights, N)
        p0 == 1000 * osc.phase
        k1 == dt * vel(p0)
        k2 == dt * vel(p0 + (k1 \div 2))
        k3 == dt * vel(p0 + (k2 \div 2))
        k4 == dt * vel(p0 + k3)
        stepped == IF cfg.integration_method = "rk4"
                   THEN p0 + ((k1 + 2 * k2 + 2 * k3 + k4) \div 6) + noise * dt
                   ELSE p0 + (vel(p0) + noise) * dt
        phase == WrapPhase(stepped)
        current_velocity == vel(1000 * phase)
    IN  [osc EXCEPT
            !.state = "coupling",
            !.phase = phase,
            !.phase_history = TrimHistory(Append(osc.phase_history, phase)),
            !.frequency_history =
                IF Len(osc.phase_history) + 1 > HISTORY_LIMIT
                THEN Tail(Append(osc.frequency_history, current_velocity \div TwoPi))
                ELSE Append(osc.frequency_history, current_velocity \div TwoPi)]

\* KuramotoOscillator.set_phase
osc_set_phase(osc, phase) == [osc EXCEPT !.phase = phase % TwoPi]

\* mutant of osc_reset: the new phase is appended to the history
osc_reset_keeps_history(osc, phase) ==
    [osc EXCEPT !.phase = phase, !.state = "idle",
                !.phase_history = Append(@, phase)]

\* KuramotoOscillator.reset, phase the sample of np.random.uniform
osc_reset(osc, phase) ==
    [osc EXCEPT !.phase = phase, !.state = "idle", !.phase_history = <<phase>>]

-----------------------------------------------------------------------------
(* KuramotoNetwork *)

\* kuramoto_models.SynchronizationDynamics()
NewDynamics == [time_to_sync |-> <<>>, sustained_duration |-> 0,
                coherence_history |-> <<>>]

\* SynchronizationDynamics.add_coherence_sample
add_coherence_sample(dyn, r, timestamp) ==
    [dyn EXCEPT !.coherence_history = Append(@, [r |-> r, t |-> timestamp])]

\* topology.get(node_id, []) as the set of the names in the list
NeighborsOf(topology, node_id) ==
    IF node_id \in DOMAIN topology THEN Range(topology[node_id]) ELSE {}

\* the weights dict update_network and _compute_network_derivatives build
\* for one node: coupling_weights.get((node_id, n), 1.0), or 1.0 throughout
\* when no coupling_weights are given
WeightsFor(node_id, neighbors, coupling_weights) ==
    [n \in neighbors |->
        IF <<node_id, n>> \in DOMAIN coupling_weights
        THEN coupling_weights[<<node_id, n>>] ELSE 1]

\* KuramotoNetwork._compute_network_derivatives, phases in milli grid units
compute_network_derivatives(oscs, phases, topology, coupling_weights) ==
    LET N == Cardinality(DOMAIN oscs)
    IN  [node_id \in DOMAIN oscs |->
            LET neighbors == NeighborsOf(topology, node_id)
                neighbor_phases == [n \in neighbors \cap DOMAIN phases |-> phases[n]]
                weights == WeightsFor(node_id, neighbors, coupling_weights)
            IN  compute_phase_velocity(configs[oscs[node_id].config],
                                       oscs[node_id].frequency, phases[node_id],
                                       neighbor_phases, weights, N)]

\* the rk4 branch of KuramotoNetwork.update_network
update_network_rk4(oscs, topology, coupling_weights, dt, noise) ==
    LET current_phases == [n \in DOMAIN oscs |-> 1000 * oscs[n].phase]
        deriv(ph) == compute_network_derivatives(oscs, ph, topology, coupling_weights)
        velocities_k1 == deriv(current_phases)
        k1 == [n \in DOMAIN oscs |-> dt * velocities_k1[n]]
        phases_k2 == [n \in DOMAIN oscs |-> current_phases[n] + (k1[n] \div 2)]
        velocities_k2 == deriv(phases_k2)
        k2 == [n \in DOMAIN oscs |-> dt * velocities_k2[n]]
        phases_k3 == [n \in DOMAIN oscs |-> current_phases[n] + (k2[n] \div 2)]
        velocities_k3 == deriv(phases_k3)
        k3 == [n \in DOMAIN oscs |-> dt * velocities_k3[n]]
        phases_k4 == [n \in DOMAIN oscs |-> current_phases[n] + k3[n]]
        velocities_k4 == deriv(phases_k4)
        k4 == [n \in DOMAIN oscs |-> dt * velocities_k4[n]]
    IN  [n \in DOMAIN oscs |->
            LET new_phase == current_phases[n]
                               + ((k1[n] + 2 * k2[n] + 2 * k3[n] + k4[n]) \div 6)
                               + noise[n] * dt
                phase == WrapPhase(new_phase)
            IN  [oscs[n] EXCEPT
                    !.phase = phase,
                    !.phase_history = Append(@, phase),
                    !.frequency_history = Append(@, velocities_k1[n] \div TwoPi)]]

\* mutant of update_network_euler: a neighbor that is no longer registered
\* is not filtered out and couples with phase 0
update_network_euler_dangling(oscs, topology, coupling_weights, dt, noise) ==
    LET current_phases == [n \in DOMAIN oscs |-> oscs[n].phase]
        N == Cardinality(DOMAIN oscs)
    IN  [n \in DOMAIN oscs |->
            LET neighbors == NeighborsOf(topology, n)
                neighbor_phases ==
                    [m \in neighbors |->
                        IF m \in DOMAIN current_phases THEN current_phases[m] ELSE 0]
                weights == WeightsFor(n, neighbors, coupling_weights)
            IN  osc_update(oscs[n], neighbor_phases, weights, dt, <<N>>, noise[n])]

\* the euler branch of KuramotoNetwork.update_network
update_network_euler(oscs, topology, coupling_weights, dt, noise) ==
    LET current_phases == [n \in DOMAIN oscs |-> oscs[n].phase]
        N == Cardinality(DOMAIN oscs)
    IN  [n \in DOMAIN oscs |->
            LET neighbors == NeighborsOf(topology, n)
                neighbor_phases ==
                    [m \in neighbors \cap DOMAIN current_phases |-> current_phases[m]]
                weights == WeightsFor(n, neighbors, coupling_weights)
            IN  osc_update(oscs[n], neighbor_phases, weights, dt, <<N>>, noise[n])]

\* the noise samples one update_network call can draw, one per oscillator
AllNoise == UNION {NoiseSamples(c.phase_noise) : c \in ConfigValues}
NoiseChoices(oscs) ==
    { f \in [DOMAIN oscs -> AllNoise] :
        \A n \in DOMAIN oscs : f[n] \in NoiseSamples(configs[oscs[n].config].phase_noise) }

\* mutant of OrderParameter: the sum is not divided by the oscillator count
OrderParameter_unnormalised(oscs) ==
    LET x == SumOver(DOMAIN oscs, [n \in DOMAIN oscs |-> Cos(oscs[n].phase)])
        y == SumOver(DOMAIN oscs, [n \in DOMAIN oscs |-> Sin(oscs[n].phase)])
    IN  Isqrt(x * x + y * y) * (100 \div SinScale)

\* r = np.abs(complex_sum) / len(phases), in hundredths
OrderParameter(oscs) ==
    LET x == SumOver(DOMAIN oscs, [n \in DOMAIN oscs |-> Cos(oscs[n].phase)])
        y == SumOver(DOMAIN oscs, [n \in DOMAIN oscs |-> Sin(oscs[n].phase)])
    IN  (Isqrt(x * x + y * y) * (100 \div SinScale)) \div Cardinality(DOMAIN oscs)

\* mutant of Quality: the band boundaries are taken upper-inclusive
Quality_upper_inclusive(r) ==
    IF r <= 30 THEN "unconscious"
    ELSE IF r <= 70 THEN "preconscious"
    ELSE IF r <= 90 THEN "conscious"
    ELSE "deep"

\* the quality bands of _update_coherence
Quality(r) ==
    IF r < 30 THEN "unconscious"
    ELSE IF r < 70 THEN "preconscious"
    ELSE IF r < 90 THEN "conscious"
    ELSE "deep"

\* the PhaseCoherence _update_coherence builds (mean_phase and
\* phase_variance are carried by no operation of the network and are left out)
Coherence(oscs, timestamp) ==
    LET r == OrderParameter(oscs)
    IN  [order_parameter |-> r, coherence_quality |-> Quality(r),
         timestamp |-> timestamp]

\* KuramotoNetwork.__init__; order is the insertion order of the oscillators
\* dict, coherence_cache is <<>> for None
NewNetwork ==
    [default_config |-> DefaultConfig,
     oscillators |-> EmptyMap,
     order |-> <<>>,
     dynamics |-> NewDynamics,
     coherence_cache |-> <<>>,
     last_coherence_time |-> 0]

\* KuramotoNetwork._update_coherence
update_coherence(net, timestamp) ==
    IF DOMAIN net.oscillators = {}
    THEN net
    ELSE LET coherence == Coherence(net.oscillators, timestamp)
         IN  [net EXCEPT
                !.coherence_cache = <<coherence>>,
                !.last_coherence_time = timestamp,
                !.dynamics = add_coherence_sample(@, coherence.order_parameter, timestamp)]

\* KuramotoNetwork.get_coherence: the network after the call, whose
\* coherence_cache is the value returned
get_coherence(net, timestamp) ==
    IF net.coherence_cache = <<>> /\ DOMAIN net.oscillators # {}
    THEN update_coherence(net, timestamp)
    ELSE net

\* KuramotoNetwork.get_order_parameter
get_order_parameter(net) ==
    IF net.coherence_cache # <<>> THEN net.coherence_cache[1].order_parameter ELSE 0

\* KuramotoNetwork.add_oscillator; config is <<>> for None or <<id>>, phase
\* the sample the new oscillator draws
add_oscillator(net, node_id, config, phase) ==
    LET osc_config == IF config = <<>> THEN net.default_config ELSE config[1]
        osc == NewOscillator(osc_config, phase)
    IN  [net EXCEPT
            !.oscillators = [n \in DOMAIN net.oscillators \cup {node_id} |->
                                IF n = node_id THEN osc ELSE net.oscillators[n]],
            !.order = IF node_id \in DOMAIN net.oscillators
                      THEN @ ELSE Append(@, node_id)]

\* KuramotoNetwork.remove_oscillator
remove_oscillator(net, node_id) ==
    IF node_id \in DOMAIN net.oscillators
    THEN [net EXCEPT
            !.oscillators = [n \in DOMAIN net.oscillators \ {node_id} |->
                                net.oscillators[n]],
            !.order = SelectSeq(@, LAMBDA n : n # node_id)]
    ELSE net

\* KuramotoNetwork.reset_all, phases the sample each oscillator draws
reset_all(net, phases) ==
    [net EXCEPT
        !.oscillators = [n \in DOMAIN net.oscillators |->
                            osc_reset(net.oscillators[n], phases[n])],
        !.dynamics = NewDynamics,
        !.coherence_cache = <<>>]

\* whether KuramotoNetwork.update_network raises: next(iter(...)) of an empty
\* dict raises StopIteration
update_network_raises(net) == net.order = <<>>

\* KuramotoNetwork.update_network on a network with an oscillator; the
\* integrator is the one of the first oscillator of the dict
update_network(net, topology, coupling_weights, dt, noise, timestamp) ==
    LET integration_method ==
            configs[net.oscillators[net.order[1]].config].integration_method
        oscs == IF integration_method = "rk4"
                THEN update_network_rk4(net.oscillators, topology,
                                        coupling_weights, dt, noise)
                ELSE update_network_euler(net.oscillators, topology,
                                          coupling_weights, dt, noise)
    IN  update_coherence([net EXCEPT !.oscillators = oscs], timestamp)

-----------------------------------------------------------------------------
(* models.TriggerConditions and the TIG fabric the coordinator reads *)

ESGT_STATES == {"active", "esgt_mode"}     \* node states that count as available
NodeStates == {"active", "esgt_mode", "offline"}

CPU_CAPACITY == 60      \* cpu_capacity = 0.60, in hundredths
AROUSAL == 70           \* arousal = 0.70, in hundredths
RECENT_EVENTS == 10     \* event_history[-10:]
BURST_WINDOW_MS == 1000 \* time.time() - e.timestamp_start < 1.0

\* TriggerConditions.check_salience; a SalienceScore is carried as its
\* compute_total(), in hundredths
check_salience(tr, salience) == salience.total >= tr.min_salience

\* TriggerConditions.check_resources
check_resources(tr, tig_latency_us, available_nodes, cpu_capacity) ==
    /\ tig_latency_us <= 1000 * tr.max_tig_latency_ms
    /\ available_nodes >= tr.min_available_nodes
    /\ cpu_capacity >= tr.min_cpu_capacity

\* TriggerConditions.check_temporal_gating; time_since_last is <<>> for
\* float("inf") and <<ms>> otherwise
check_temporal_gating(tr, time_since_last, recent_count) ==
    /\ time_since_last = <<>> \/ time_since_last[1] >= tr.refractory_period_ms
    /\ recent_count <= tr.max_burst

\* TriggerConditions.check_arousal
check_arousal(tr, arousal) == arousal >= tr.min_arousal_level

\* sum(1 for node in self.tig.nodes.values() if node.node_state.value in [...])
AvailableNodes(fabric) ==
    Cardinality({n \in DOMAIN fabric.nodes : fabric.nodes[n].node_state \in ESGT_STATES})

\* time.time() - self.last_esgt_time if self.last_esgt_time > 0 else float("inf")
TimeSinceLast(last, t) == IF last > 0 THEN <<t - last>> ELSE <<>>

\* self.event_history[-10:]
LastEvents(history) ==
    IF Len(history) <= RECENT_EVENTS THEN history
    ELSE SubSeq(history, Len(history) - RECENT_EVENTS + 1, Len(history))

\* sum(1 for e in self.event_history[-10:] if time.time() - e.timestamp_start < 1.0)
RecentCount(history, t) ==
    LET recent == LastEvents(history)
    IN  Cardinality({i \in DOMAIN recent : t - recent[i].timestamp_start < BURST_WINDOW_MS})

\* mutant of check_triggers: the arousal check is left out
check_triggers_no_arousal(tr, fabric, last, history, salience, t) ==
    IF ~check_salience(tr, salience)
    THEN [success |-> FALSE, reason |-> "Salience too low",
          evaluated |-> <<"check_salience">>]
    ELSE IF ~check_resources(tr, fabric.avg_latency_us, AvailableNodes(fabric),
                             CPU_CAPACITY)
    THEN [success |-> FALSE, reason |-> "Insufficient resources",
          evaluated |-> <<"check_salience", "get_metrics", "check_resources">>]
    ELSE IF ~check_temporal_gating(tr, TimeSinceLast(last, t), RecentCount(history, t))
    THEN [success |-> FALSE, reason |-> "Refractory period violation",
          evaluated |-> <<"check_salience", "get_metrics", "check_resources",
                          "check_temporal_gating">>]
    ELSE [success |-> TRUE, reason |-> "",
          evaluated |-> <<"check_salience", "get_metrics", "check_resources",
                          "check_temporal_gating">>]

\* mutant of check_triggers: the resource gate is looked at before salience
check_triggers_resources_first(tr, fabric, last, history, salience, t) ==
    IF ~check_resources(tr, fabric.avg_latency_us, AvailableNodes(fabric),
                        CPU_CAPACITY)
    THEN [success |-> FALSE, reason |-> "Insufficient resources",
          evaluated |-> <<"get_metrics", "check_resources">>]
    ELSE IF ~check_salience(tr, salience)
    THEN [success |-> FALSE, reason |-> "Salience too low",
          evaluated |-> <<"get_metrics", "check_resources", "check_salience">>]
    ELSE IF ~check_temporal_gating(tr, TimeSinceLast(last, t), RecentCount(history, t))
    THEN [success |-> FALSE, reason |-> "Refractory period violation",
          evaluated |-> <<"get_metrics", "check_resources", "check_salience",
                          "check_temporal_gating">>]
    ELSE IF ~check_arousal(tr, AROUSAL)
    THEN [success |-> FALSE, reason |-> "Arousal too low",
          evaluated |-> <<"get_metrics", "check_resources", "check_salience",
                          "check_temporal_gating", "check_arousal">>]
    ELSE [success |-> TRUE, reason |-> "",
          evaluated |-> <<"get_metrics", "check_resources", "check_salience",
                          "check_temporal_gating", "check_arousal">>]

\* mutant of check_triggers: last_esgt_time is not consulted, the time since
\* the last ignition is always taken as float("inf")
check_triggers_refractory_units(tr, fabric, last, history, salience, t) ==
    IF ~check_salience(tr, salience)
    THEN [success |-> FALSE, reason |-> "Salience too low",
          evaluated |-> <<"check_salience">>]
    ELSE IF ~check_resources(tr, fabric.avg_latency_us, AvailableNodes(fabric),
                             CPU_CAPACITY)
    THEN [success |-> FALSE, reason |-> "Insufficient resources",
          evaluated |-> <<"check_salience", "get_metrics", "check_resources">>]
    ELSE IF ~check_temporal_gating(tr, <<>>, RecentCount(history, t))
    THEN [success |-> FALSE, reason |-> "Refractory period violation",
          evaluated |-> <<"check_salience", "get_metrics", "check_resources",
                          "check_temporal_gating">>]
    ELSE IF ~check_arousal(tr, AROUSAL)
    THEN [success |-> FALSE, reason |-> "Arousal too low",
          evaluated |-> <<"check_salience", "get_metrics", "check_resources",
                          "check_temporal_gating", "check_arousal">>]
    ELSE [success |-> TRUE, reason |-> "",
          evaluated |-> <<"check_salience", "get_metrics", "check_resources",
                          "check_temporal_gating", "check_arousal">>]

\* TriggerValidationMixin._check_triggers: the pair it returns, and the
\* queries and gate checks it made, in order; t is the reading of time.time()
check_triggers(tr, fabric, last, history, salience, t) ==
    IF ~check_salience(tr, salience)
    THEN [success |-> FALSE, reason |-> "Salience too low",
          evaluated |-> <<"check_salience">>]
    ELSE IF ~check_resources(tr, fabric.avg_latency_us, AvailableNodes(fabric),
                             CPU_CAPACITY)
    THEN [success |-> FALSE, reason |-> "Insufficient resources",
          evaluated |-> <<"check_salience", "get_metrics", "check_resources">>]
    ELSE IF ~check_temporal_gating(tr, TimeSinceLast(last, t), RecentCount(history, t))
    THEN [success |-> FALSE, reason |-> "Refractory period violation",
          evaluated |-> <<"check_salience", "get_metrics", "check_resources",
                          "check_temporal_gating">>]
    ELSE IF ~check_arousal(tr, AROUSAL)
    THEN [success |-> FALSE, reason |-> "Arousal too low",
          evaluated |-> <<"check_salience", "get_metrics", "check_resources",
                          "check_temporal_gating", "check_arousal">>]
    ELSE [success |-> TRUE, reason |-> "",
          evaluated |-> <<"check_salience", "get_metrics", "check_resources",
                          "check_temporal_gating", "check_arousal">>]

\* TriggerValidationMixin._recruit_nodes
recruit_nodes(fabric) ==
    {n \in DOMAIN fabric.nodes : fabric.nodes[n].node_state \in ESGT_STATES}

\* mutant of build_topology: the active flag of a connection is not looked at
build_topology_any_connection(fabric, node_ids) ==
    [node_id \in node_ids \cap DOMAIN fabric.nodes |->
        LET kept == SelectSeq(fabric.nodes[node_id].connections,
                              LAMBDA conn : conn.remote_node_id \in node_ids)
        IN  [i \in DOMAIN kept |-> kept[i].remote_node_id]]

\* TriggerValidationMixin._build_topology; a node's connections are the
\* values of its connections dict, in order
build_topology(fabric, node_ids) ==
    [node_id \in node_ids \cap DOMAIN fabric.nodes |->
        LET kept == SelectSeq(fabric.nodes[node_id].connections,
                              LAMBDA conn : conn.active /\ conn.remote_node_id \in node_ids)
        IN  [i \in DOMAIN kept |-> kept[i].remote_node_id]]

-----------------------------------------------------------------------------
(* Trigger checks against a changing fabric and clock *)

BaseTriggers ==
    [min_salience |-> 60, max_tig_latency_ms |-> 5, min_available_nodes |-> 2,
     min_cpu_capacity |-> 40, refractory_period_ms |-> 1000, max_burst |-> 2,
     min_arousal_level |-> 40]

\* the TriggerConditions a coordinator is built with
TriggerSetups ==
    { BaseTriggers,
      [BaseTriggers EXCEPT !.refractory_period_ms = 499, !.max_burst = 1],
      [BaseTriggers EXCEPT !.min_arousal_level = 80] }

InitialFabric ==
    [avg_latency_us |-> 2000,
     nodes |-> [n \in Nodes |->
                  [node_state |-> "active",
                   connections |-> IF n = "n1"
                                   THEN <<[remote_node_id |-> "n2", active |-> TRUE]>>
                                   ELSE <<[remote_node_id |-> "n1", active |-> TRUE]>>]]]

SalienceInputs == {[total |-> 59], [total |-> 60], [total |-> 85]}
TickValues == {499, 501}
LatencyValues == {2000, 5001}
ArousalInputs == {39, 90}

NoResult == [called |-> FALSE]

\* an attempt before initiate_esgt is called: no event, no locals
NewAttempt ==
    [phase_log |-> <<>>, failure |-> "", participating_nodes |-> {},
     topology |-> EmptyMap, coherence_history |-> <<>>, timestamp_start |-> 0,
     step |-> 0, steps |-> 0, sync_start |-> 0, start_time |-> 0, tail_step |-> 0,
     coupled |-> FALSE, reset_done |-> FALSE,
     pre_nodes |-> {}, pre_coupling |-> EmptyMap]

\* the number of events of the whole history that started within the last second
EventsInWindow(history, t) ==
    Cardinality({i \in DOMAIN history : t - history[i].timestamp_start < BURST_WINDOW_MS})

\* what a call of _check_triggers leaves for its caller: what it returned,
\* with the outcome each of the four gates has on the state the call saw;
\* supplied is the arousal the affect component reports at the time of the
\* call, which _check_triggers has no parameter for and does not query
check_outcome(salience, supplied) ==
    [called |-> TRUE,
     returned |-> check_triggers(triggers, tig, last_esgt_time, event_history,
                                 salience, now),
     gates |-> [salience |-> check_salience(triggers, salience),
                resource |-> check_resources(triggers, tig.avg_latency_us,
                                             AvailableNodes(tig), CPU_CAPACITY),
                temporal |-> check_temporal_gating(triggers,
                                 TimeSinceLast(last_esgt_time, now),
                                 RecentCount(event_history, now)),
                arousal |-> check_arousal(triggers, AROUSAL)],
     time_since_last |-> TimeSinceLast(last_esgt_time, now),
     in_window |-> EventsInWindow(event_history, now),
     supplied_arousal |-> supplied]

\* mutant of CheckTriggers: a passing check stamps last_esgt_time
CheckTriggers_stamps(salience, supplied) ==
    /\ cpu = NoTask
    /\ UNCHANGED <<taskVars, ext_touched, serviceVars>>
    /\ trigger_result' = check_outcome(salience, supplied)
    /\ last_esgt_time' = IF trigger_result'.returned.success THEN now ELSE last_esgt_time
    /\ UNCHANGED <<now, netVars, triggers, tig, event_history>>

\* a call of _check_triggers
CheckTriggers(salience, supplied) ==
    /\ cpu = NoTask
    /\ UNCHANGED <<taskVars, ext_touched, serviceVars>>
    /\ trigger_result' = check_outcome(salience, supplied)
    /\ UNCHANGED <<now, netVars, coordData>>

\* the clock advances
Tick(d) ==
    /\ cpu = NoTask
    /\ UNCHANGED <<taskVars, ext_touched, serviceVars>>
    /\ now + d <= MaxTime
    /\ now' = now + d
    /\ trigger_result' = NoResult
    /\ UNCHANGED <<netVars, coordData>>

\* an ignition that passed the trigger check is recorded by the coordinator
RecordIgnition ==
    /\ cpu = NoTask
    /\ UNCHANGED <<taskVars, ext_touched, serviceVars>>
    /\ trigger_result.called /\ trigger_result.returned.success
    /\ Len(event_history) < MaxEvents
    /\ event_history' = Append(event_history, [timestamp_start |-> now])
    /\ last_esgt_time' = now
    /\ trigger_result' = NoResult
    /\ UNCHANGED <<now, netVars, triggers, tig>>

\* a fabric node changes state
FabricNodeState(n, st) ==
    /\ cpu = NoTask
    /\ UNCHANGED <<taskVars, ext_touched, serviceVars>>
    /\ tig.nodes[n].node_state # st
    /\ tig' = [tig EXCEPT !.nodes[n].node_state = st]
    /\ trigger_result' = NoResult
    /\ UNCHANGED <<now, netVars, triggers, last_esgt_time, event_history>>

\* a node disconnects from the fabric: it leaves tig.nodes and the
\* connections of the other nodes to it become inactive
FabricDisconnect(n) ==
    /\ cpu = NoTask
    /\ UNCHANGED <<taskVars, ext_touched, serviceVars>>
    /\ n \in DOMAIN tig.nodes
    /\ LET cut(conns) ==
               [i \in DOMAIN conns |->
                   IF conns[i].remote_node_id = n
                   THEN [conns[i] EXCEPT !.active = FALSE]
                   ELSE conns[i]]
       IN  tig' = [tig EXCEPT !.nodes =
                      [m \in DOMAIN tig.nodes \ {n} |->
                          [tig.nodes[m] EXCEPT !.connections = cut(@)]]]
    /\ trigger_result' = NoResult
    /\ UNCHANGED <<now, netVars, triggers, last_esgt_time, event_history>>

\* the fabric's measured latency changes
FabricLatency(us) ==
    /\ cpu = NoTask
    /\ UNCHANGED <<taskVars, ext_touched, serviceVars>>
    /\ tig.avg_latency_us # us
    /\ tig' = [tig EXCEPT !.avg_latency_us = us]
    /\ trigger_result' = NoResult
    /\ UNCHANGED <<now, netVars, triggers, last_esgt_time, event_history>>

-----------------------------------------------------------------------------
(* PTPSynchronizer: offsets, jitter and delay in ns, quality in hundredths  *)

SYNC_STATES == {"unsynchronized", "synchronizing", "synchronized"}
TARGET_JITTER_NS == 100

\* PTPSynchronizer.__init__, role slave
NewSynchronizer ==
    [state |-> "unsynchronized", sync_active |-> FALSE, offsets |-> <<>>,
     offset_ns |-> 0, jitter_ns |-> 0, last_result |-> <<>>, raised |-> "",
     rounds |-> 0, rounds_ok |-> 0]

\* what a round is given as time_source: an accessor that answers, with the
\* offset and round-trip delay the round measures against it; one that
\* fails; or None
OffsetSamples == {0, 10, 30}
DelaySamples == {100, 100000}
SimulatedOffsets == {0, 10}
TimeSources ==
    {[kind |-> "working", offset |-> o, delay |-> d] :
        o \in OffsetSamples, d \in DelaySamples}
    \cup {[kind |-> "failing", offset |-> 0, delay |-> 0],
          [kind |-> "none", offset |-> 0, delay |-> 100]}

SumSeq(seq) == SumOver(1..Len(seq), seq)

\* jitter: the variance of the recent offset estimates
Variance(seq) ==
    LET n == Len(seq)
        squares == [i \in 1..n |-> seq[i] * seq[i]]
    IN  IF n = 0 THEN 0
        ELSE (n * SumSeq(squares) - SumSeq(seq) * SumSeq(seq)) \div (n * n)

\* the last RecentWindow estimates
Recent(seq) ==
    IF Len(seq) <= RecentWindow THEN seq
    ELSE SubSeq(seq, Len(seq) - RecentWindow + 1, Len(seq))

\* PTPSynchronizer._calculate_quality: decreasing in jitter and in delay
\* relative to the target jitter, clamped to [0, 1]
calculate_quality(jitter_ns, delay_ns) ==
    LET raw == 100 - (jitter_ns * 10) \div TARGET_JITTER_NS
                   - delay_ns \div (TARGET_JITTER_NS * 10)
    IN  IF raw < 0 THEN 0 ELSE IF raw > 100 THEN 100 ELSE raw

\* mutant of state_after_start: start() reports the clock as synchronized
state_after_start_synchronized(state) == "synchronized"

\* the state start() leaves
state_after_start(state) ==
    IF state = "unsynchronized" THEN "synchronizing" ELSE state

\* the state a completed round leaves
state_after_round(state, jitter_ns) ==
    IF state = "unsynchronized" THEN state
    ELSE IF jitter_ns <= TARGET_JITTER_NS THEN "synchronized" ELSE "synchronizing"

\* the state a failed round leaves
state_after_error(state) ==
    IF state = "synchronized" THEN "synchronizing" ELSE state

\* mutant of round_error: a failing time source's error reaches the caller
round_error_propagates(source) ==
    IF source.kind = "failing" THEN "TimeSourceError" ELSE ""

\* what sync_to_master raises to its caller: errors of a round are caught
round_error(source) == ""

\* PTPSynchronizer.start
ptp_start(p) ==
    [p EXCEPT !.sync_active = TRUE, !.state = state_after_start(p.state)]

\* PTPSynchronizer.stop
ptp_stop(p) == [p EXCEPT !.sync_active = FALSE]

\* PTPSynchronizer.sync_to_master: one round against source; simulated is
\* the offset used when no time source is given
sync_to_master(p, source, simulated) ==
    IF round_error(source) # ""
    THEN [p EXCEPT !.raised = round_error(source), !.last_result = <<>>,
                   !.rounds = @ + 1]
    ELSE IF source.kind = "failing"
    THEN [p EXCEPT
            !.state = state_after_error(p.state),
            !.last_result = <<[success |-> FALSE, offset_ns |-> p.offset_ns,
                               jitter_ns |-> p.jitter_ns, quality |-> 0]>>,
            !.raised = "",
            !.rounds = @ + 1]
    ELSE LET offset == IF source.kind = "none" THEN simulated ELSE source.offset
             offsets == Recent(Append(p.offsets, offset))
             jitter == Variance(offsets)
         IN  [p EXCEPT
                !.offsets = offsets,
                !.offset_ns = offset,
                !.jitter_ns = jitter,
                !.state = state_after_round(p.state, jitter),
                !.last_result = <<[success |-> TRUE, offset_ns |-> offset,
                                   jitter_ns |-> jitter,
                                   quality |-> calculate_quality(jitter, source.delay)]>>,
                !.raised = "",
                !.rounds = @ + 1,
                !.rounds_ok = IF jitter <= TARGET_JITTER_NS THEN @ + 1 ELSE @]

\* mutant of is_ready_for_esgt: only the jitter is looked at
is_ready_for_esgt_jitter_only(p) == p.jitter_ns <= TARGET_JITTER_NS

\* PTPSynchronizer.is_ready_for_esgt
is_ready_for_esgt(p) ==
    p.state = "synchronized" /\ p.jitter_ns <= TARGET_JITTER_NS

\* the coordinator as constructed, over a fabric of connected active nodes
InitCoordData ==
    /\ tig = InitialFabric
    /\ last_esgt_time = 0
    /\ event_history = <<>>
    /\ trigger_result = NoResult
    /\ igniting = FALSE
    /\ pc = [a \in Attempts |-> "idle"]
    /\ att = [a \in Attempts |-> NewAttempt]
    /\ cpu = NoTask
    /\ ext_touched = {}
    /\ running = FALSE
    /\ stopped_at = {}
    /\ ptp = NewSynchronizer

\* the coordinator's trigger conditions are replaced
Reconfigure(tr) ==
    /\ cpu = NoTask
    /\ UNCHANGED <<taskVars, ext_touched, serviceVars>>
    /\ triggers # tr
    /\ triggers' = tr
    /\ trigger_result' = NoResult
    /\ UNCHANGED <<now, netVars, tig, last_esgt_time, event_history>>

InitTrig ==
    /\ now = 1000
    /\ configs = CHOOSE h \in ConfigSetups : TRUE
    /\ kuramoto = NewNetwork
    /\ net_error = ""
    /\ calls = 0
    /\ triggers \in TriggerSetups
    /\ InitCoordData

NextTrig ==
    \/ \E s \in SalienceInputs, ar \in ArousalInputs : CheckTriggers(s, ar)
    \/ \E d \in TickValues : Tick(d)
    \/ RecordIgnition
    \/ \E n \in Nodes, st \in NodeStates : FabricNodeState(n, st)
    \/ \E us \in LatencyValues : FabricLatency(us)
    \/ \E tr \in TriggerSetups : Reconfigure(tr)

-----------------------------------------------------------------------------
(* Direct calls of the network's public methods *)

\* the fully connected topology
FullTopology == [n \in Nodes |-> IF n = "n1" THEN <<"n2">> ELSE <<"n1">>]

\* the arguments of the direct update_network calls
UpdateNetworkInputs ==
    { [topology |-> EmptyMap, coupling_weights |-> EmptyMap, dt |-> 5],
      [topology |-> FullTopology, coupling_weights |-> EmptyMap, dt |-> 5],
      [topology |-> FullTopology, coupling_weights |-> [e \in {<<"n1", "n2">>} |-> 2],
       dt |-> 1],
      [topology |-> [n \in {"n1"} |-> <<"n2", "n2">>], coupling_weights |-> EmptyMap,
       dt |-> 1] }

\* the arguments of the direct KuramotoOscillator.update calls
OscUpdateInputs ==
    { [neighbor_phases |-> EmptyMap, dt |-> 5, N |-> <<>>],
      [neighbor_phases |-> [m \in {"n2"} |-> 2], dt |-> 5, N |-> <<>>],
      [neighbor_phases |-> [m \in {"n2"} |-> 2], dt |-> 1, N |-> <<2>>] }

\* arguments of set_phase, in grid units: below 0, inside and beyond a turn
PhaseInputs == {-1, 21}

\* bookkeeping of one direct call
Called ==
    /\ calls < MaxCalls
    /\ calls' = calls + 1
    /\ cpu = NoTask
    /\ UNCHANGED <<now, configs, coordData, trigger_result, taskVars>>

HistoryRoom(net) ==
    /\ \A n \in DOMAIN net.oscillators :
          /\ Len(net.oscillators[n].phase_history) < MaxHist
          /\ Len(net.oscillators[n].frequency_history) < MaxHist + 1
    /\ Len(net.dynamics.coherence_history) < MaxSamples

NetAddOscillator(node_id, config) ==
    /\ ext_touched' = ext_touched \cup {node_id}
    /\ UNCHANGED serviceVars
    /\ \E phase \in RandomPhases :
          kuramoto' = add_oscillator(kuramoto, node_id, config, phase)
    /\ net_error' = ""
    /\ Called

NetRemoveOscillator(node_id) ==
    /\ ext_touched' = ext_touched \cup {node_id}
    /\ UNCHANGED serviceVars
    /\ kuramoto' = remove_oscillator(kuramoto, node_id)
    /\ net_error' = ""
    /\ Called

NetSetPhase(node_id, phase) ==
    /\ UNCHANGED <<ext_touched, serviceVars>>
    /\ node_id \in DOMAIN kuramoto.oscillators
    /\ kuramoto' = [kuramoto EXCEPT
                      !.oscillators[node_id] = osc_set_phase(@, phase)]
    /\ net_error' = ""
    /\ Called

\* KuramotoOscillator.update called on one oscillator, N given or None
NetOscUpdate(node_id, neighbor_phases, dt, Narg) ==
    /\ UNCHANGED <<ext_touched, serviceVars>>
    /\ node_id \in DOMAIN kuramoto.oscillators
    /\ HistoryRoom(kuramoto)
    /\ \E noise \in NoiseSamples(configs[kuramoto.oscillators[node_id].config].phase_noise) :
          kuramoto' = [kuramoto EXCEPT
                         !.oscillators[node_id] =
                            osc_update(@, neighbor_phases, EmptyMap, dt, Narg, noise)]
    /\ net_error' = ""
    /\ Called

NetOscReset(node_id) ==
    /\ UNCHANGED <<ext_touched, serviceVars>>
    /\ node_id \in DOMAIN kuramoto.oscillators
    /\ \E phase \in RandomPhases :
          kuramoto' = [kuramoto EXCEPT !.oscillators[node_id] = osc_reset(@, phase)]
    /\ net_error' = ""
    /\ Called

NetResetAll ==
    /\ UNCHANGED <<ext_touched, serviceVars>>
    /\ \E phases \in [DOMAIN kuramoto.oscillators -> RandomPhases] :
          kuramoto' = reset_all(kuramoto, phases)
    /\ net_error' = ""
    /\ Called

NetUpdateNetwork(topology, coupling_weights, dt) ==
    /\ UNCHANGED <<ext_touched, serviceVars>>
    /\ IF update_network_raises(kuramoto)
       THEN /\ net_error' = "StopIteration"
            /\ UNCHANGED kuramoto
       ELSE /\ HistoryRoom(kuramoto)
            /\ \E noise \in NoiseChoices(kuramoto.oscillators) :
                  kuramoto' = update_network(kuramoto, topology, coupling_weights,
                                             dt, noise, now)
            /\ net_error' = ""
    /\ Called

NetGetCoherence ==
    /\ UNCHANGED <<ext_touched, serviceVars>>
    /\ Len(kuramoto.dynamics.coherence_history) < MaxSamples
    /\ kuramoto' = get_coherence(kuramoto, now)
    /\ net_error' = ""
    /\ Called

InitNet ==
    /\ now = 1000
    /\ configs \in ConfigSetups
    /\ kuramoto = NewNetwork
    /\ net_error = ""
    /\ calls = 0
    /\ InitCoordData
    /\ triggers = BaseTriggers

NextNet ==
    \/ \E n \in Nodes, c \in {<<>>} \cup {<<i>> : i \in CallerConfigs} :
          NetAddOscillator(n, c)
    \/ \E n \in Nodes : NetRemoveOscillator(n)
    \/ \E n \in Nodes, x \in PhaseInputs : NetSetPhase(n, x)
    \/ \E n \in Nodes, a \in OscUpdateInputs :
          NetOscUpdate(n, a.neighbor_phases, a.dt, a.N)
    \/ \E n \in Nodes : NetOscReset(n)
    \/ NetResetAll
    \/ \E a \in UpdateNetworkInputs :
          NetUpdateNetwork(a.topology, a.coupling_weights, a.dt)
    \/ NetGetCoherence

-----------------------------------------------------------------------------
(* ESGTCoordinator.initiate_esgt: ignition attempts as cooperative tasks of  *)
(* one event loop.  A task keeps the loop (cpu) until it awaits; everything  *)
(* else runs only while no task holds it.                                    *)

SYNC_DURATION_MS == 12      \* the duration_ms the coordinator gives synchronize
SYNC_DT == 5                \* synchronize's dt = 0.005, in ms
TARGET_COHERENCE == 70      \* target_coherence = 0.70, in hundredths
SUSTAIN_DURATION_MS == 10   \* the duration_ms the coordinator gives _sustain_coherence
SUSTAIN_DT == 5             \* update_network(topology, dt=0.005) in _sustain_coherence
SUSTAIN_SLEEP_MS == 5       \* asyncio.sleep(0.005) in _sustain_coherence
TAIL_STEPS == 10            \* for _ in range(10) in _dissolve_event
TAIL_DT == 5                \* update_network(topology, dt=0.005) in _dissolve_event
TAIL_SLEEP_MS == 5          \* asyncio.sleep(0.005) in _dissolve_event
YIELD_EVERY == 10           \* if step % 10 == 0: await asyncio.sleep(0)

\* the trigger conditions of the coordinator that runs attempts: one
\* available node is enough, the refractory period is short
IgnitionTriggers ==
    [BaseTriggers EXCEPT !.min_available_nodes = 1, !.refractory_period_ms = 499]

\* ESGTEvent.transition_phase: the event's phase changes and is logged
transition_phase(at, phase) == [at EXCEPT !.phase_log = Append(@, phase)]

\* mutant of may_ignite: the running flag is not looked at
may_ignite_unguarded(flag) == TRUE

\* the single-flight check before SYNCHRONIZE is entered
may_ignite(flag) == ~flag

\* mutant of phase_after_sync: a missed target starts the attempt over
phase_after_sync_retry(reached) == IF reached THEN "BROADCAST" ELSE "PREPARE"

\* the phase that follows SYNCHRONIZE: BROADCAST once the target coherence
\* is reached, a downgrade to DISSOLVE otherwise
phase_after_sync(reached) == IF reached THEN "BROADCAST" ELSE "DISSOLVE"

\* steps = int(duration_s / dt) in synchronize
sync_steps(duration_ms, dt) == duration_ms \div dt

\* mutant of record_sync: sustained_duration grows on every step
record_sync_every_step(net, target_coherence, dt, start_time, t) ==
    [net EXCEPT !.dynamics.sustained_duration = @ + dt]

\* the body of synchronize's loop after update_network: time_to_sync and
\* sustained_duration
record_sync(net, target_coherence, dt, start_time, t) ==
    IF net.coherence_cache # <<>>
       /\ net.coherence_cache[1].order_parameter >= target_coherence
    THEN [net EXCEPT
            !.dynamics.time_to_sync = IF @ = <<>> THEN <<t - start_time>> ELSE @,
            !.dynamics.sustained_duration = @ + dt]
    ELSE net

\* one "*= 0.5" on a coupling strength
halve(k) == IF k.num = 0 THEN k ELSE [k EXCEPT !.halvings = @ + 1]

RECURSIVE halve_times(_, _)
halve_times(k, times) == IF times = 0 THEN k ELSE halve_times(halve(k), times - 1)

\* for osc in self.kuramoto.oscillators.values():
\*     osc.config.coupling_strength *= 0.5
\* a config object is halved once for every oscillator that refers to it
halve_coupling(cfgs, oscs) ==
    [c \in DOMAIN cfgs |->
        [cfgs[c] EXCEPT !.coupling_strength =
            halve_times(@, Cardinality({n \in DOMAIN oscs : oscs[n].config = c}))]]

\* the coupling strength each oscillator sees through its config
coupling_of(cfgs, oscs) == [n \in DOMAIN oscs |-> cfgs[oscs[n].config].coupling_strength]

\* an attempt whose initiate_esgt has returned: its locals are gone, what
\* is kept is what the event reports
returned(at) ==
    [NewAttempt EXCEPT !.phase_log = at.phase_log, !.failure = at.failure,
                       !.coupled = at.coupled, !.reset_done = at.reset_done]

Runnable(a) == cpu \in {NoTask, a}

\* initiate_esgt up to the entry into SYNCHRONIZE: the trigger check, the
\* single-flight check, recruitment and topology
Initiate(a, salience) ==
    /\ pc[a] = "idle"
    /\ a = "a2" => pc["a1"] # "idle"
    /\ cpu = NoTask
    /\ LET res == check_triggers(triggers, tig, last_esgt_time, event_history,
                                 salience, now)
           prepared == transition_phase(att[a], "PREPARE")
           node_ids == recruit_nodes(tig)
       IN  IF ~res.success
           THEN /\ pc' = [pc EXCEPT ![a] = "rejected"]
                /\ att' = [att EXCEPT ![a] = [prepared EXCEPT !.failure = res.reason]]
                /\ UNCHANGED <<igniting, cpu>>
           ELSE IF ~may_ignite(igniting)
           THEN /\ pc' = [pc EXCEPT ![a] = "refused"]
                /\ att' = [att EXCEPT ![a] =
                             [prepared EXCEPT !.failure = "ignition in progress"]]
                /\ UNCHANGED <<igniting, cpu>>
           ELSE /\ igniting' = TRUE
                /\ pc' = [pc EXCEPT ![a] = "synchronize"]
                /\ att' = [att EXCEPT ![a] =
                             [transition_phase(prepared, "SYNCHRONIZE") EXCEPT
                                !.participating_nodes = node_ids,
                                !.topology = build_topology(tig, node_ids),
                                !.timestamp_start = now,
                                !.sync_start = now,
                                !.step = 0,
                                !.steps = sync_steps(SYNC_DURATION_MS, SYNC_DT)]]
                /\ cpu' = a
    /\ trigger_result' = NoResult
    /\ UNCHANGED <<now, netVars, coordData, ext_touched, serviceVars>>

\* one iteration of synchronize's loop; a raising update_network ends
\* SYNCHRONIZE with a downgrade to DISSOLVE
SyncStep(a) ==
    /\ pc[a] = "synchronize"
    /\ Runnable(a)
    /\ att[a].step < att[a].steps
    /\ IF update_network_raises(kuramoto)
       THEN /\ pc' = [pc EXCEPT ![a] = "dissolve"]
            /\ att' = [att EXCEPT ![a] =
                         [transition_phase(@, "DISSOLVE") EXCEPT
                            !.failure = "StopIteration"]]
            /\ cpu' = NoTask
            /\ UNCHANGED kuramoto
       ELSE \E noise \in NoiseChoices(kuramoto.oscillators) :
            /\ kuramoto' = record_sync(
                              update_network(kuramoto, att[a].topology, EmptyMap,
                                             SYNC_DT, noise, now),
                              TARGET_COHERENCE, SYNC_DT, att[a].sync_start, now)
            /\ att' = [att EXCEPT ![a].step = @ + 1, ![a].coupled = TRUE]
            /\ pc' = [pc EXCEPT ![a] = IF att[a].step + 1 = att[a].steps
                                       THEN "synced" ELSE "synchronize"]
            /\ cpu' = IF att[a].step % YIELD_EVERY = 0 THEN NoTask ELSE a
    /\ UNCHANGED <<now, configs, net_error, calls, coordData, trigger_result,
                   igniting, ext_touched, serviceVars>>

\* synchronize has returned: BROADCAST if the target coherence is reached,
\* otherwise the attempt is downgraded to DISSOLVE
AfterSync(a) ==
    /\ pc[a] = "synced"
    /\ Runnable(a)
    /\ LET net == get_coherence(kuramoto, now)
           reached == get_order_parameter(net) >= TARGET_COHERENCE
           phase == phase_after_sync(reached)
       IN  /\ kuramoto' = net
           /\ att' = [att EXCEPT ![a] =
                        [transition_phase(@, phase) EXCEPT
                           !.failure = IF reached THEN "" ELSE "sync timeout"]]
           /\ pc' = [pc EXCEPT ![a] = CASE phase = "BROADCAST" -> "broadcast"
                                        [] phase = "DISSOLVE" -> "dissolve"
                                        [] OTHER -> "idle"]
    /\ cpu' = NoTask
    /\ UNCHANGED <<now, configs, net_error, calls, coordData, trigger_result,
                   igniting, ext_touched, serviceVars>>

\* BROADCAST: the content is handed to the recruited nodes, then SUSTAIN is
\* entered and _sustain_coherence reads its start_time
Broadcast(a) ==
    /\ pc[a] = "broadcast"
    /\ Runnable(a)
    /\ att' = [att EXCEPT ![a] =
                 [transition_phase(@, "SUSTAIN") EXCEPT !.start_time = now]]
    /\ pc' = [pc EXCEPT ![a] = "sustain"]
    /\ cpu' = a
    /\ UNCHANGED <<now, netVars, coordData, trigger_result, igniting, ext_touched, serviceVars>>

\* mutant of sustain_sample: the sample replaces the samples taken so far
sustain_sample_replaces(history, net) ==
    IF net.coherence_cache # <<>>
    THEN <<net.coherence_cache[1].order_parameter>>
    ELSE history

\* coherence = self.kuramoto.get_coherence()
\* if coherence: event.coherence_history.append(coherence.order_parameter)
\* with net the network get_coherence has returned from
sustain_sample(history, net) ==
    IF net.coherence_cache # <<>>
    THEN Append(history, net.coherence_cache[1].order_parameter)
    ELSE history

\* one pass of _sustain_coherence's loop, up to and including the sleep; or
\* the loop's exit, after which DISSOLVE is entered.  A raising
\* update_network ends SUSTAIN with a downgrade to DISSOLVE.
SustainStep(a) ==
    /\ pc[a] = "sustain"
    /\ Runnable(a)
    /\ IF now - att[a].start_time < SUSTAIN_DURATION_MS
       THEN IF update_network_raises(kuramoto)
            THEN /\ pc' = [pc EXCEPT ![a] = "dissolve"]
                 /\ att' = [att EXCEPT ![a] =
                              [transition_phase(@, "DISSOLVE") EXCEPT
                                 !.failure = "StopIteration"]]
                 /\ UNCHANGED <<kuramoto, now>>
            ELSE \E noise \in NoiseChoices(kuramoto.oscillators) :
                 LET updated == update_network(kuramoto, att[a].topology, EmptyMap,
                                               SUSTAIN_DT, noise, now)
                     net == get_coherence(updated, now)
                 IN  /\ kuramoto' = net
                     /\ att' = [att EXCEPT ![a].coherence_history =
                                  sustain_sample(@, net)]
                     /\ now' = now + SUSTAIN_SLEEP_MS
                     /\ UNCHANGED pc
       ELSE /\ pc' = [pc EXCEPT ![a] = "dissolve"]
            /\ att' = [att EXCEPT ![a] = transition_phase(@, "DISSOLVE")]
            /\ UNCHANGED <<kuramoto, now>>
    /\ cpu' = NoTask
    /\ UNCHANGED <<configs, net_error, calls, coordData, trigger_result, igniting,
                   ext_touched, serviceVars>>

\* the start of _dissolve_event: every oscillator's config is halved and the
\* topology is rebuilt; the tail loop's first pass follows without an await
DissolveStart(a) ==
    /\ pc[a] = "dissolve"
    /\ Runnable(a)
    /\ configs' = halve_coupling(configs, kuramoto.oscillators)
    /\ att' = [att EXCEPT ![a].topology = build_topology(tig, att[a].participating_nodes),
                          ![a].tail_step = 0,
                          ![a].pre_nodes = DOMAIN kuramoto.oscillators,
                          ![a].pre_coupling = coupling_of(configs, kuramoto.oscillators)]
    /\ pc' = [pc EXCEPT ![a] = "halved"]
    /\ cpu' = a
    /\ ext_touched' = {}
    /\ UNCHANGED serviceVars
    /\ UNCHANGED <<now, kuramoto, net_error, calls, coordData, trigger_result, igniting>>

\* mutant of tail_continues: the tail loop also ends when the coordinator
\* has been stopped
tail_continues_while_running(tail_step) == running /\ tail_step < TAIL_STEPS

\* mutant of tail_continues: the tail loop runs one pass less
tail_continues_one_short(tail_step) == tail_step < TAIL_STEPS - 1

\* the tail loop of _dissolve_event, for _ in range(10), has a pass left
tail_continues(tail_step) == tail_step < TAIL_STEPS

\* one pass of the tail loop of _dissolve_event, up to and including the
\* sleep.  _dissolve_event catches nothing: a raising update_network ends it
\* on the spot, and the attempt with it.
TailStep(a) ==
    /\ pc[a] \in {"halved", "tail"}
    /\ Runnable(a)
    /\ tail_continues(att[a].tail_step)
    /\ IF update_network_raises(kuramoto)
       THEN /\ pc' = [pc EXCEPT ![a] = "failed"]
            /\ att' = [att EXCEPT ![a] = [returned(@) EXCEPT !.failure = "StopIteration"]]
            /\ igniting' = FALSE
            /\ UNCHANGED <<kuramoto, now>>
       ELSE \E noise \in NoiseChoices(kuramoto.oscillators) :
            /\ kuramoto' = update_network(kuramoto, att[a].topology, EmptyMap,
                                          TAIL_DT, noise, now)
            /\ att' = [att EXCEPT ![a].tail_step = @ + 1, ![a].coupled = TRUE]
            /\ now' = now + TAIL_SLEEP_MS
            /\ pc' = [pc EXCEPT ![a] = "tail"]
            /\ UNCHANGED igniting
    /\ cpu' = NoTask
    /\ UNCHANGED <<configs, net_error, calls, coordData, trigger_result, ext_touched, serviceVars>>

\* the end of _dissolve_event: self.kuramoto.reset_all()
DissolveReset(a) ==
    /\ pc[a] = "tail"
    /\ Runnable(a)
    /\ ~tail_continues(att[a].tail_step)
    /\ \E phases \in [DOMAIN kuramoto.oscillators -> RandomPhases] :
          kuramoto' = reset_all(kuramoto, phases)
    /\ att' = [att EXCEPT ![a].reset_done = TRUE]
    /\ pc' = [pc EXCEPT ![a] = "dissolved"]
    /\ cpu' = a
    /\ UNCHANGED <<now, configs, net_error, calls, coordData, trigger_result,
                   igniting, ext_touched, serviceVars>>

\* initiate_esgt returns after _dissolve_event: an event that was broadcast
\* is recorded, the running flag is cleared
Finalize(a) ==
    /\ pc[a] = "dissolved"
    /\ Runnable(a)
    /\ pc' = [pc EXCEPT ![a] = "done"]
    /\ igniting' = FALSE
    /\ IF att[a].failure = ""
       THEN /\ event_history' = Append(event_history,
                                       [timestamp_start |-> att[a].timestamp_start])
            /\ last_esgt_time' = now
       ELSE UNCHANGED <<event_history, last_esgt_time>>
    /\ att' = [att EXCEPT ![a] = returned(@)]
    /\ cpu' = NoTask
    /\ UNCHANGED <<now, netVars, triggers, tig, trigger_result, ext_touched, serviceVars>>

Init ==
    /\ now = 1000
    /\ configs \in {h \in ConfigSetups : \A c \in ConfigIds : h[c].phase_noise = 0}
    /\ kuramoto = NewNetwork
    /\ net_error = ""
    /\ calls = 0
    /\ InitCoordData
    /\ triggers = IgnitionTriggers

Next ==
    \/ \E a \in Attempts, s \in SalienceInputs : Initiate(a, s)
    \/ \E a \in Attempts : SyncStep(a)
    \/ \E a \in Attempts : AfterSync(a)
    \/ \E a \in Attempts : Broadcast(a)
    \/ \E a \in Attempts : SustainStep(a)
    \/ \E a \in Attempts : DissolveStart(a)
    \/ \E a \in Attempts : TailStep(a)
    \/ \E a \in Attempts : DissolveReset(a)
    \/ \E a \in Attempts : Finalize(a)
    \/ \E n \in Nodes, c \in {<<>>} \cup {<<i>> : i \in CallerConfigs} :
          calls < MaxExternal /\ ~igniting /\ NetAddOscillator(n, c)
    \/ \E n \in Nodes : calls < MaxExternal /\ NetRemoveOscillator(n)
    \/ FabricNodeState("n2", "offline")
    \/ \E d \in TickValues : ~igniting /\ event_history # <<>> /\ Tick(d)

-----------------------------------------------------------------------------
(* _update_coherence over all phases: networks of one or two oscillators    *)
(* as add_oscillator leaves them, the uniform draw being any grid phase      *)

\* the network after add_oscillator(n) for the nodes of phases, each
\* oscillator's draw being phases[n]
NetworkAt(phases) ==
    [NewNetwork EXCEPT
        !.oscillators = [n \in DOMAIN phases |-> NewOscillator(DefaultConfig, phases[n])],
        !.order = IF DOMAIN phases = Nodes THEN <<"n1", "n2">> ELSE <<"n1">>]

InitCoh ==
    /\ now = 1000
    /\ configs = CHOOSE h \in ConfigSetups : h[DefaultConfig].phase_noise = 0
    /\ \E D \in {{"n1"}, Nodes} :
          \E phases \in [D -> 0..(TwoPi - 1)] : kuramoto = NetworkAt(phases)
    /\ net_error = ""
    /\ calls = 0
    /\ triggers = BaseTriggers
    /\ InitCoordData

NextCoh ==
    \/ NetGetCoherence
    \/ \E a \in UpdateNetworkInputs :
          NetUpdateNetwork(a.topology, a.coupling_weights, a.dt)
    \/ NetResetAll

-----------------------------------------------------------------------------
(* A long run of one oscillator: update_network step after step, with a     *)
(* reset_all when the phase history is full                                 *)

\* the lengths of the phase history at which the run's caller resets
ResetPoints == {HISTORY_LIMIT}

InitHist ==
    /\ now = 1000
    /\ configs = CHOOSE h \in ConfigSetups : \A c \in ConfigIds : h[c].phase_noise = 0
    /\ \E c \in ConfigIds : kuramoto = add_oscillator(NewNetwork, "n1", <<c>>, TwoPi - 1)
    /\ net_error = ""
    /\ calls = 0
    /\ triggers = BaseTriggers
    /\ InitCoordData

\* one update_network(topology={}, dt=0.005) of the run
HistUpdate ==
    /\ calls < MaxUpdates
    /\ ~update_network_raises(kuramoto)
    /\ \E noise \in NoiseChoices(kuramoto.oscillators) :
          kuramoto' = update_network(kuramoto, EmptyMap, EmptyMap, SUSTAIN_DT, noise, now)
    /\ calls' = calls + 1
    /\ net_error' = ""
    /\ UNCHANGED <<now, configs, coordData, trigger_result, taskVars, ext_touched, serviceVars>>

\* reset_all of the run
HistReset ==
    /\ calls < MaxUpdates
    /\ \E n \in DOMAIN kuramoto.oscillators :
          Len(kuramoto.oscillators[n].phase_history) \in ResetPoints
    /\ kuramoto' = reset_all(kuramoto, [n \in DOMAIN kuramoto.oscillators |-> TwoPi - 1])
    /\ net_error' = ""
    /\ UNCHANGED <<now, configs, calls, coordData, trigger_result, taskVars, ext_touched, serviceVars>>

NextHist == HistUpdate \/ HistReset

-----------------------------------------------------------------------------
(* update_network steps after a remove_oscillator: two registered           *)
(* oscillators, one of them is removed, and the steps that follow are given *)
(* topologies that still name it                                            *)

InitDangling ==
    /\ now = 1000
    /\ configs \in ConfigSetups
    /\ \E phases \in [Nodes -> 0..(TwoPi - 1)] : kuramoto = NetworkAt(phases)
    /\ net_error = ""
    /\ calls = 0
    /\ triggers = BaseTriggers
    /\ InitCoordData

NextDangling ==
    \/ \E n \in Nodes : NetRemoveOscillator(n)
    \/ \E a \in UpdateNetworkInputs :
          ext_touched # {} /\ NetUpdateNetwork(a.topology, a.coupling_weights, a.dt)

-----------------------------------------------------------------------------
(* The coordinator's lifecycle: start() and stop() called, and a node      *)
(* leaving the fabric, between the steps of ignition attempts on a          *)
(* populated network                                                        *)

\* the attempts that are between initiate_esgt's entry and its return
Underway == {a \in Attempts : pc[a] \notin {"idle", "done", "failed"}}

\* ESGTCoordinator.start()
Start ==
    /\ cpu = NoTask
    /\ running' = TRUE
    /\ UNCHANGED <<now, netVars, coordData, trigger_result, taskVars, ext_touched,
                   stopped_at, ptp>>

\* ESGTCoordinator.stop()
Stop ==
    /\ cpu = NoTask
    /\ running' = FALSE
    /\ stopped_at' = {pc[a] : a \in Underway}
    /\ UNCHANGED <<now, netVars, coordData, trigger_result, taskVars, ext_touched, ptp>>

InitLife ==
    /\ now = 1000
    /\ configs = CHOOSE h \in ConfigSetups : \A c \in ConfigIds : h[c].phase_noise = 0
    /\ \E phases \in [Nodes -> RandomPhases] : kuramoto = NetworkAt(phases)
    /\ net_error = ""
    /\ calls = 0
    /\ InitCoordData
    /\ triggers = IgnitionTriggers

NextLife ==
    \/ Start
    \/ Stop
    \/ \E a \in Attempts, s \in SalienceInputs : Initiate(a, s)
    \/ \E a \in Attempts : SyncStep(a)
    \/ \E a \in Attempts : AfterSync(a)
    \/ \E a \in Attempts : Broadcast(a)
    \/ \E a \in Attempts : SustainStep(a)
    \/ \E a \in Attempts : DissolveStart(a)
    \/ \E a \in Attempts : TailStep(a)
    \/ \E a \in Attempts : DissolveReset(a)
    \/ \E a \in Attempts : Finalize(a)
    \/ (\E a \in Attempts : pc[a] = "sustain") /\ FabricDisconnect("n2")
    \/ \E d \in TickValues : ~igniting /\ event_history # <<>> /\ Tick(d)

-----------------------------------------------------------------------------
(* The clock synchronizer of one node: start, stop and rounds               *)

syncRest == <<now, netVars, coordData, trigger_result, taskVars, ext_touched,
              running, stopped_at>>

PtpStart ==
    /\ ptp' = ptp_start(ptp)
    /\ UNCHANGED syncRest

PtpStop ==
    /\ ptp' = ptp_stop(ptp)
    /\ UNCHANGED syncRest

SyncToMaster(source) ==
    /\ ptp.rounds < MaxRounds
    /\ ptp.raised = ""
    /\ \E simulated \in SimulatedOffsets :
          /\ source.kind # "none" => simulated = 0
          /\ ptp' = sync_to_master(ptp, source, simulated)
    /\ UNCHANGED syncRest

InitSync ==
    /\ now = 1000
    /\ configs = CHOOSE h \in ConfigSetups : h[DefaultConfig].phase_noise = 0
    /\ kuramoto = NewNetwork
    /\ net_error = ""
    /\ calls = 0
    /\ triggers = BaseTriggers
    /\ InitCoordData

NextSync ==
    \/ PtpStart
    \/ PtpStop
    \/ \E source \in TimeSources : SyncToMaster(source)

-----------------------------------------------------------------------------
(* Trigger checks during a burst: a short refractory period and a burst cap  *)
(* of RECENT_EVENTS, so that more than ten ignitions fall within a second    *)

BurstTriggers ==
    [BaseTriggers EXCEPT !.refractory_period_ms = BurstTick,
                         !.max_burst = RECENT_EVENTS]

\* an ignition that passed the trigger check is recorded by the coordinator
RecordBurstIgnition ==
    /\ cpu = NoTask
    /\ UNCHANGED <<taskVars, ext_touched, serviceVars>>
    /\ trigger_result.called /\ trigger_result.returned.success
    /\ Len(event_history) < MaxBurst
    /\ event_history' = Append(event_history, [timestamp_start |-> now])
    /\ last_esgt_time' = now
    /\ trigger_result' = NoResult
    /\ UNCHANGED <<now, netVars, triggers, tig>>

InitBurst ==
    /\ now = 1000
    /\ configs = CHOOSE h \in ConfigSetups : TRUE
    /\ kuramoto = NewNetwork
    /\ net_error = ""
    /\ calls = 0
    /\ triggers = BurstTriggers
    /\ InitCoordData

NextBurst ==
    \/ \E s \in SalienceInputs \ {[total |-> 59]}, ar \in ArousalInputs :
          CheckTriggers(s, ar)
    \/ now < 1000 + MaxBurst * BurstTick /\ Tick(BurstTick)
    \/ RecordBurstIgnition

-----------------------------------------------------------------------------
(* _build_topology over fabrics of one or two nodes whose connections are   *)
(* active or not and may lead to a node n3 that the fabric does not hold     *)

OtherNode(n) == IF n = "n1" THEN "n2" ELSE "n1"

\* the connections a node of the fabric may have
ConnectionSetups(n) ==
    LET peer(active) == [remote_node_id |-> OtherNode(n), active |-> active]
        far(active) == [remote_node_id |-> "n3", active |-> active]
    IN  { <<>>, <<peer(TRUE)>>, <<peer(FALSE)>>, <<peer(TRUE), far(TRUE)>>,
          <<far(FALSE), peer(TRUE)>>, <<far(TRUE), peer(FALSE)>> }

FabricSetups ==
    UNION { { [avg_latency_us |-> 2000,
               nodes |-> [n \in D |-> [node_state |-> "active", connections |-> conns[n]]]] :
              conns \in { f \in [D -> UNION {ConnectionSetups(n) : n \in Nodes}] :
                            \A n \in D : f[n] \in ConnectionSetups(n) } } :
            D \in {{"n1"}, Nodes} }

NodeIdInputs == SUBSET (Nodes \cup {"n3"})

\* a call of _build_topology(node_ids); the caller keeps the set it passed
\* and the map it got
BuildTopology(node_ids) ==
    /\ cpu = NoTask
    /\ att' = [att EXCEPT !["a1"].participating_nodes = node_ids,
                          !["a1"].topology = build_topology(tig, node_ids)]
    /\ UNCHANGED <<now, netVars, coordData, trigger_result, igniting, pc, cpu,
                   ext_touched, serviceVars>>

InitTopo ==
    /\ now = 1000
    /\ configs = CHOOSE h \in ConfigSetups : TRUE
    /\ kuramoto = NewNetwork
    /\ net_error = ""
    /\ calls = 0
    /\ triggers = BaseTriggers
    /\ \E fabric \in FabricSetups :
          /\ tig = fabric
          /\ last_esgt_time = 0
          /\ event_history = <<>>
          /\ trigger_result = NoResult
          /\ igniting = FALSE
          /\ pc = [a \in Attempts |-> "idle"]
          /\ att = [a \in Attempts |-> NewAttempt]
          /\ cpu = NoTask
          /\ ext_touched = {}
          /\ running = FALSE
          /\ stopped_at = {}
          /\ ptp = NewSynchronizer

NextTopo == \E node_ids \in NodeIdInputs : BuildTopology(node_ids)

-----------------------------------------------------------------------------
(* update_network on networks of two oscillators, registered in either      *)
(* order, each with the default config or a config of its own               *)

\* the network after add_oscillator(order[1], ...), add_oscillator(order[2],
\* ...): cfg[n] is the config given with n, phases[n] its uniform draw
NetworkOf(order, cfg, phases) ==
    [NewNetwork EXCEPT
        !.oscillators = [n \in Nodes |-> NewOscillator(cfg[n], phases[n])],
        !.order = order]

InitOrder ==
    /\ now = 1000
    /\ configs \in ConfigSetups
    /\ \E order \in {<<"n1", "n2">>, <<"n2", "n1">>} :
       \E cfg \in [Nodes -> ConfigIds] :
       \E phases \in [Nodes -> {0, 1, 3, TwoPi - 1}] :
          kuramoto = NetworkOf(order, cfg, phases)
    /\ net_error = ""
    /\ calls = 0
    /\ triggers = BaseTriggers
    /\ InitCoordData

NextOrder ==
    \E a \in UpdateNetworkInputs : NetUpdateNetwork(a.topology, a.coupling_weights, a.dt)

vars == <<now, configs, kuramoto, net_error, calls, triggers, tig, last_esgt_time,
          event_history, trigger_result, igniting, pc, att, cpu, ext_touched,
          running, stopped_at, ptp>>

SpecNet == InitNet /\ [][NextNet]_vars

SpecTrig == InitTrig /\ [][NextTrig]_vars

Spec == Init /\ [][Next]_vars

SpecCoh == InitCoh /\ [][NextCoh]_vars

SpecHist == InitHist /\ [][NextHist]_vars

SpecDangling == InitDangling /\ [][NextDangling]_vars

SpecLife == InitLife /\ [][NextLife]_vars

SpecSync == InitSync /\ [][NextSync]_vars

SpecBurst == InitBurst /\ [][NextBurst]_vars

SpecTopo == InitTopo /\ [][NextTopo]_vars

SpecOrder == InitOrder /\ [][NextOrder]_vars

-----------------------------------------------------------------------------
(* Claims on the oscillator network, checked under SpecNet *)

C10_OrderParameterInUnitInterval ==
    /\ kuramoto.coherence_cache # <<>> =>
          kuramoto.coherence_cache[1].order_parameter \in 0..100
    /\ \A i \in DOMAIN kuramoto.dynamics.coherence_history :
          kuramoto.dynamics.coherence_history[i].r \in 0..100

\* two oscillators in phase after an update step: r = 1 is cached and logged
C10_Witness ==
    /\ Cardinality(DOMAIN kuramoto.oscillators) = 2
    /\ kuramoto.coherence_cache # <<>>
    /\ kuramoto.coherence_cache[1].order_parameter = 100
    /\ Len(kuramoto.dynamics.coherence_history) >= 1
    /\ \E n \in DOMAIN kuramoto.oscillators :
          kuramoto.oscillators[n].state = "coupling"

-----------------------------------------------------------------------------
(* Claims on the trigger check, checked under SpecTrig *)

AllGatesPass(g) == g.salience /\ g.resource /\ g.temporal /\ g.arousal

\* C1: _check_triggers returns (True, "") if and only if all four gates
\* pass; whenever at least one gate fails it returns False with a non-empty
\* reason, whatever the other gates do.
C1_SuccessIffAllGates ==
    trigger_result.called =>
        LET ret == trigger_result.returned
            all == AllGatesPass(trigger_result.gates)
        IN  /\ ret.success <=> all
            /\ ret.success => ret.reason = ""
            /\ ~all => (~ret.success /\ ret.reason # "")

\* only the arousal gate fails, the other three pass, and the check fails
C1_Witness ==
    /\ trigger_result.called
    /\ trigger_result.gates = [salience |-> TRUE, resource |-> TRUE,
                               temporal |-> TRUE, arousal |-> FALSE]
    /\ ~trigger_result.returned.success
    /\ last_esgt_time > 0

GateOrder == <<"salience", "resource", "temporal", "arousal">>
GateReason == [salience |-> "Salience too low", resource |-> "Insufficient resources",
               temporal |-> "Refractory period violation",
               arousal |-> "Arousal too low"]
GateCalls == [salience |-> <<"check_salience">>,
              resource |-> <<"get_metrics", "check_resources">>,
              temporal |-> <<"check_temporal_gating">>,
              arousal |-> <<"check_arousal">>]

\* the position in GateOrder of the first failing gate, 5 when none fails
FirstFailing(g) ==
    IF \E i \in 1..4 : ~g[GateOrder[i]]
    THEN CHOOSE i \in 1..4 : ~g[GateOrder[i]] /\ \A j \in 1..(i - 1) : g[GateOrder[j]]
    ELSE 5

RECURSIVE CallsUpTo(_)
CallsUpTo(i) == IF i = 0 THEN <<>> ELSE CallsUpTo(i - 1) \o GateCalls[GateOrder[i]]

\* C2: the gates are evaluated in the order salience, resource, temporal,
\* arousal and evaluation stops at the first failure: the reason returned is
\* the one of the earliest failing gate and nothing after it is evaluated or
\* queried.
C2_OrderedShortCircuit ==
    trigger_result.called =>
        LET ret == trigger_result.returned
            first == FirstFailing(trigger_result.gates)
        IN  /\ first <= 4 => ret.reason = GateReason[GateOrder[first]]
            /\ ret.evaluated = CallsUpTo(IF first <= 4 THEN first ELSE 4)

\* salience and two later gates fail: only the salience gate was evaluated
C2_Witness ==
    /\ trigger_result.called
    /\ ~trigger_result.gates.salience
    /\ ~trigger_result.gates.resource
    /\ ~trigger_result.gates.temporal
    /\ trigger_result.returned.evaluated = <<"check_salience">>
    /\ trigger_result.returned.reason = "Salience too low"

\* C3: an attempt less than refractory_period_ms after the last ignition,
\* with the salience and resource gates passing, is rejected with the reason
\* that names the refractory period; an attempt at or after the refractory
\* period with the events of the last second within the burst cap is not
\* rejected by the temporal gate.
C3_RefractoryRejects ==
    trigger_result.called =>
        LET ret == trigger_result.returned
            since == trigger_result.time_since_last
        IN  /\ ( /\ last_esgt_time > 0
                 /\ since[1] < triggers.refractory_period_ms
                 /\ trigger_result.gates.salience
                 /\ trigger_result.gates.resource )
               => (~ret.success /\ ret.reason = "Refractory period violation")
            /\ ( /\ last_esgt_time > 0
                 /\ since[1] >= triggers.refractory_period_ms
                 /\ trigger_result.in_window <= triggers.max_burst )
               => ret.reason # "Refractory period violation"

\* refractory period 1000 ms, a second attempt about 500 ms after the first
\* ignition is rejected by the temporal gate
C3_Witness ==
    /\ trigger_result.called
    /\ triggers.refractory_period_ms = 1000
    /\ last_esgt_time > 0
    /\ trigger_result.time_since_last = <<499>>
    /\ trigger_result.returned.reason = "Refractory period violation"

-----------------------------------------------------------------------------
(* Claims on the ignition attempts, checked under Spec *)

\* an attempt between its entry into SYNCHRONIZE and the end of DISSOLVE
InFlight(a) ==
    pc[a] \in {"synchronize", "synced", "broadcast", "sustain", "dissolve",
               "halved", "tail", "dissolved"}

\* C4: at most one attempt is between entering SYNCHRONIZE and finishing
\* DISSOLVE at any time; the running flag is set exactly while one is, and an
\* attempt refused for it stays in PREPARE and never touches the network.
C4_SingleFlight ==
    /\ Cardinality({a \in Attempts : InFlight(a)}) <= 1
    /\ igniting <=> (\E a \in Attempts : InFlight(a))
    /\ \A a \in Attempts :
          pc[a] = "refused" =>
              /\ att[a].phase_log = <<"PREPARE">>
              /\ ~att[a].coupled

\* a second attempt passed the trigger check and was refused while the first
\* was driving the oscillators
C4_Witness ==
    \E a, b \in Attempts :
        /\ InFlight(a) /\ att[a].coupled
        /\ DOMAIN kuramoto.oscillators # {}
        /\ pc[b] = "refused"

PhaseRank ==
    [PREPARE |-> 1, SYNCHRONIZE |-> 2, BROADCAST |-> 3, SUSTAIN |-> 4, DISSOLVE |-> 5]

Ended(a) == pc[a] \in {"rejected", "refused", "failed", "done"}

PhasesInOrder(log) ==
    /\ log # <<>> => log[1] = "PREPARE"
    /\ \A i, j \in DOMAIN log : i < j => PhaseRank[log[i]] < PhaseRank[log[j]]

\* C5: the phases an event goes through are PREPARE, SYNCHRONIZE, BROADCAST,
\* SUSTAIN, DISSOLVE in this order, each at most once and none after a later
\* one (a downgrade skips ahead to DISSOLVE); an attempt that has ended stays
\* ended and enters no further phase.
C5_PhaseOrder ==
    /\ [](\A a \in Attempts : PhasesInOrder(att[a].phase_log))
    /\ [][\A a \in Attempts :
             Ended(a) => /\ pc'[a] = pc[a]
                         /\ att'[a].phase_log = att[a].phase_log]_vars

\* an event went through all five phases, and an attempt that missed the
\* target coherence was downgraded from SYNCHRONIZE to DISSOLVE
C5_Witness ==
    /\ att["a1"].phase_log =
          <<"PREPARE", "SYNCHRONIZE", "BROADCAST", "SUSTAIN", "DISSOLVE">>
    /\ pc["a1"] = "done"
    /\ att["a2"].phase_log = <<"PREPARE", "SYNCHRONIZE", "DISSOLVE">>

\* C6: an attempt that has ended after it started coupling the oscillators
\* has executed reset_all.
C6_CoupledAttemptsReset ==
    \A a \in Attempts : (Ended(a) /\ att[a].coupled) => att[a].reset_done

\* C7: when _dissolve_event has completed the registered oscillators are
\* those registered when it started (but for the ones a direct call removed
\* meanwhile), every phase history is the current phase alone, every
\* oscillator is idle, the dynamics and the coherence cache are cleared.
C7_DissolveRestoresBaseline ==
    \A a \in Attempts :
        pc[a] = "dissolved" =>
            /\ DOMAIN kuramoto.oscillators \ ext_touched = att[a].pre_nodes \ ext_touched
            /\ \A n \in DOMAIN kuramoto.oscillators :
                  /\ kuramoto.oscillators[n].phase_history =
                        <<kuramoto.oscillators[n].phase>>
                  /\ kuramoto.oscillators[n].state = "idle"
            /\ kuramoto.dynamics.time_to_sync = <<>>
            /\ kuramoto.dynamics.sustained_duration = 0
            /\ kuramoto.dynamics.coherence_history = <<>>
            /\ kuramoto.coherence_cache = <<>>

\* _dissolve_event has completed on two oscillators that it drove through all
\* its tail steps, no direct call in between
C7_Witness ==
    \E a \in Attempts :
        /\ pc[a] = "dissolved"
        /\ att[a].tail_step = TAIL_STEPS
        /\ att[a].pre_nodes = Nodes
        /\ DOMAIN kuramoto.oscillators = Nodes
        /\ ext_touched = {}

\* cur is exactly one half of pre
IsHalf(cur, pre) == cur.num * Pow2(pre.halvings + 1) = pre.num * Pow2(cur.halvings)

\* C8: right after the halving at the start of _dissolve_event every
\* oscillator's coupling_strength is exactly half of what it was right before.
C8_CouplingHalved ==
    \A a \in Attempts :
        pc[a] = "halved" =>
            \A n \in DOMAIN kuramoto.oscillators :
                IsHalf(coupling_of(configs, kuramoto.oscillators)[n],
                       att[a].pre_coupling[n])

-----------------------------------------------------------------------------
(* Claims on the coherence measurement, checked under SpecCoh *)

\* C11: every cached PhaseCoherence carries the quality of its own order
\* parameter, the bands being lower-inclusive: below 0.30 unconscious, from
\* 0.30 to below 0.70 preconscious, from 0.70 to below 0.90 conscious, from
\* 0.90 deep.
C11_QualityBands ==
    kuramoto.coherence_cache # <<>> =>
        LET r == kuramoto.coherence_cache[1].order_parameter
            q == kuramoto.coherence_cache[1].coherence_quality
        IN  /\ (r < 30) <=> (q = "unconscious")
            /\ (30 <= r /\ r < 70) <=> (q = "preconscious")
            /\ (70 <= r /\ r < 90) <=> (q = "conscious")
            /\ (90 <= r) <=> (q = "deep")

\* two oscillators a quarter turn apart: r is on the boundary 0.70 and the
\* cached quality is conscious
C11_Witness ==
    /\ Cardinality(DOMAIN kuramoto.oscillators) = 2
    /\ kuramoto.coherence_cache # <<>>
    /\ kuramoto.coherence_cache[1].order_parameter = 70
    /\ kuramoto.coherence_cache[1].coherence_quality = "conscious"

-----------------------------------------------------------------------------
(* Claims on the history buffers, checked under SpecHist *)

\* C12: neither the phase history nor the frequency history of an oscillator
\* ever holds more than the last 1000 samples.
C12_HistoriesBounded ==
    \A n \in DOMAIN kuramoto.oscillators :
        /\ Len(kuramoto.oscillators[n].phase_history) <= HISTORY_LIMIT
        /\ Len(kuramoto.oscillators[n].frequency_history) <= HISTORY_LIMIT

-----------------------------------------------------------------------------
(* Claims on calls of an emptied network, checked under SpecNet *)

\* C13: no direct call of the network raises an error to its caller, a call
\* of update_network on a network with no oscillators included.
C13_UpdateNetworkNeverRaises == net_error = ""

-----------------------------------------------------------------------------
(* Claims on steps after a removal, checked under SpecDangling *)

\* the topology without the nodes that are not registered, as keys and as
\* neighbors
Prune(topology, registered) ==
    [k \in DOMAIN topology \cap registered |->
        SelectSeq(topology[k], LAMBDA m : m \in registered)]

\* the step just taken was an update_network that advanced the oscillators
UpdateStepTaken ==
    \E n \in DOMAIN kuramoto.oscillators \cap DOMAIN kuramoto'.oscillators :
        Len(kuramoto'.oscillators[n].phase_history) =
            Len(kuramoto.oscillators[n].phase_history) + 1

\* C14: after remove_oscillator(x), while an oscillator remains, every
\* update_network step given a topology that still names x completes without
\* error; every remaining oscillator advances by one sample, exactly as it
\* does under the topology without x (x adds no coupling term), and the set
\* of oscillators is unchanged (x is not created again).
C14_DanglingTopologyHarmless ==
    [][(calls' = calls + 1 /\ DOMAIN kuramoto.oscillators # {}) =>
          /\ net_error' = ""
          /\ UpdateStepTaken =>
                /\ DOMAIN kuramoto'.oscillators = DOMAIN kuramoto.oscillators
                /\ \A n \in DOMAIN kuramoto.oscillators :
                      Len(kuramoto'.oscillators[n].phase_history) =
                          Len(kuramoto.oscillators[n].phase_history) + 1
                /\ \E a \in UpdateNetworkInputs :
                      \E noise \in NoiseChoices(kuramoto.oscillators) :
                          kuramoto'.oscillators =
                              update_network(kuramoto,
                                             Prune(a.topology, DOMAIN kuramoto.oscillators),
                                             a.coupling_weights, a.dt, noise,
                                             now).oscillators]_vars

\* n2 was removed and n1 then advanced by a step without error
C14_Witness ==
    /\ DOMAIN kuramoto.oscillators = {"n1"}
    /\ ext_touched = {"n2"}
    /\ kuramoto.oscillators["n1"].state = "coupling"
    /\ Len(kuramoto.oscillators["n1"].phase_history) = 2
    /\ net_error = ""

-----------------------------------------------------------------------------
(* Claims on the number of synchronize steps, checked under Spec *)

\* duration / dt rounded up to the next whole number
CeilDiv(duration_ms, dt) == (duration_ms + dt - 1) \div dt

\* C15: when synchronize returns, it has performed exactly
\* ceil(duration / dt) update_network steps: a duration that is not a whole
\* multiple of dt is rounded up to the next full step.
C15_CeilingSteps ==
    \A a \in Attempts :
        pc[a] = "synced" => att[a].step = CeilDiv(SYNC_DURATION_MS, SYNC_DT)

-----------------------------------------------------------------------------
(* Claims on start() and stop(), checked under SpecLife *)

\* C16: start() sets the running flag and stop() clears it, and both can be
\* called whenever no step is under way, whatever the flag and whatever the
\* attempts are doing (before any start, twice, during SUSTAIN or DISSOLVE);
\* the flag changes only between steps and changes nothing else, so no
\* update_network step is left half applied; and a dissolve reaches
\* reset_all only after all its tail steps, stopped or not.
C16_StopAtStepBoundaries ==
    /\ [](cpu = NoTask =>
            /\ ENABLED (Start /\ running')
            /\ ENABLED (Stop /\ ~running'))
    /\ [](\A a \in Attempts :
            pc[a] = "dissolved" =>
                att[a].reset_done /\ att[a].tail_step = TAIL_STEPS)
    /\ [][running' # running =>
            /\ cpu = NoTask
            /\ UNCHANGED <<now, netVars, coordData, trigger_result, taskVars>>]_vars

\* stop() was called while an attempt was in SUSTAIN, and the attempt's
\* dissolve has since run through to reset_all
C16_Witness ==
    /\ ~running
    /\ "sustain" \in stopped_at
    /\ \E a \in Attempts :
          /\ pc[a] = "dissolved"
          /\ att[a].reset_done
          /\ "SUSTAIN" \in Range(att[a].phase_log)

-----------------------------------------------------------------------------
(* Claims on the clock synchronizer, checked under SpecSync *)

\* C17: sync_to_master never raises and always returns a SyncResult, whatever
\* the synchronizer's state and the time source: a round against a failing
\* source returns an unsuccessful result of quality 0 that carries the last
\* known offset.
C17_SyncAlwaysReturnsResult ==
    /\ ptp.raised = ""
    /\ ptp.rounds > 0 =>
          /\ Len(ptp.last_result) = 1
          /\ LET r == ptp.last_result[1]
             IN  /\ r.success \in BOOLEAN
                 /\ r.quality \in 0..100
                 /\ r.jitter_ns >= 0
                 /\ r.offset_ns = ptp.offset_ns
                 /\ ~r.success => r.quality = 0

\* a round failed on a synchronizer that had been synchronized
C17_Witness ==
    /\ ptp.rounds_ok >= 1
    /\ ptp.state = "synchronizing"
    /\ ptp.last_result # <<>>
    /\ ~ptp.last_result[1].success

\* C18: is_ready_for_esgt() is true only when the state is synchronized and
\* the jitter of the recent estimates is within the target; it is false
\* before the first successful low-jitter round, so for a new synchronizer
\* and after start() alone.
C18_ReadyOnlyWhenSynchronized ==
    is_ready_for_esgt(ptp) =>
        /\ ptp.state = "synchronized"
        /\ Variance(ptp.offsets) <= TARGET_JITTER_NS
        /\ ptp.rounds_ok >= 1

\* the synchronizer is ready after two rounds
C18_Witness ==
    /\ is_ready_for_esgt(ptp)
    /\ Len(ptp.offsets) = 2
    /\ ptp.offsets[1] # ptp.offsets[2]

\* C19: the synchronizer is created unsynchronized and inactive, and its
\* state changes only from unsynchronized to synchronizing by start(), from
\* synchronizing to synchronized by a completed low-jitter round, and from
\* synchronized to synchronizing by a round that failed or whose jitter is
\* above the target; it is never synchronized without a successful round.
C19_SyncStateMachine ==
    /\ ptp.state = "unsynchronized" /\ ~ptp.sync_active
    /\ [](ptp.state = "synchronized" => ptp.rounds_ok >= 1)
    /\ [][ptp'.state # ptp.state =>
            \/ /\ ptp.state = "unsynchronized"
               /\ ptp'.state = "synchronizing"
               /\ ptp'.sync_active
               /\ ptp'.rounds = ptp.rounds
            \/ /\ ptp.state = "synchronizing"
               /\ ptp'.state = "synchronized"
               /\ ptp'.rounds_ok = ptp.rounds_ok + 1
               /\ ptp'.last_result[1].success
               /\ ptp'.jitter_ns <= TARGET_JITTER_NS
            \/ /\ ptp.state = "synchronized"
               /\ ptp'.state = "synchronizing"
               /\ ptp'.rounds = ptp.rounds + 1
               /\ \/ ~ptp'.last_result[1].success
                  \/ ptp'.jitter_ns > TARGET_JITTER_NS]_vars

\* a synchronized clock went back to synchronizing on degraded jitter
C19_Witness ==
    /\ ptp.rounds_ok >= 1
    /\ ptp.state = "synchronizing"
    /\ ptp.last_result # <<>>
    /\ ptp.last_result[1].success
    /\ ptp.jitter_ns > TARGET_JITTER_NS

-----------------------------------------------------------------------------
(* Claims on the loss of a recruited node, checked under SpecLife *)

\* the recruited nodes of attempt a that have left the fabric
LostNodes(a) == att[a].participating_nodes \ DOMAIN tig.nodes

\* C20: once a recruited node has disconnected from the fabric while its
\* event is in SUSTAIN, the attempt performs no further sustain step: it
\* goes to DISSOLVE directly, and the dissolve then runs through to
\* reset_all without error on the topology rebuilt without the node.
C20_DisconnectEndsSustain ==
    /\ [](\A a \in Attempts :
            (pc[a] = "dissolved" /\ LostNodes(a) # {}) =>
                att[a].reset_done /\ att[a].failure # "StopIteration")
    /\ [][\A a \in Attempts :
            (pc[a] = "sustain" /\ LostNodes(a) # {}) =>
                ~(pc'[a] = "sustain" /\ kuramoto' # kuramoto)]_vars

-----------------------------------------------------------------------------
(* Claims on the inputs of the trigger check, checked under SpecTrig *)

\* C21: with the salience, resource and temporal gates passing, the trigger
\* check passes exactly when the arousal supplied from outside is at or
\* above min_arousal_level.
C21_ArousalGateUsesSupplied ==
    (/\ trigger_result.called
     /\ trigger_result.gates.salience
     /\ trigger_result.gates.resource
     /\ trigger_result.gates.temporal)
    => (trigger_result.returned.success
            <=> trigger_result.supplied_arousal >= triggers.min_arousal_level)

-----------------------------------------------------------------------------
(* Claims on the recent-event count, checked under SpecBurst *)

\* C22: the recent-event count the temporal gate is given equals the number
\* of events of the whole history that started within the last second, and
\* the check fails whenever that number is above the burst cap.
C22_RecentCountIsWindowCount ==
    trigger_result.called =>
        /\ RecentCount(event_history, now) = trigger_result.in_window
        /\ trigger_result.in_window > triggers.max_burst =>
              ~trigger_result.returned.success

-----------------------------------------------------------------------------
(* Claims on the dynamics synchronize records, checked under Spec *)

\* a step of attempt a's synchronize loop has just been performed
SyncStepTaken(a) == pc[a] = "synchronize" /\ att'[a].step = att[a].step + 1

-----------------------------------------------------------------------------
(* Claims on what SUSTAIN changes, checked under Spec *)

\* a pass of attempt a's sustain loop has just been performed: the only step
\* that moves the clock while an attempt is in SUSTAIN
SustainStepTaken(a) == pc[a] = "sustain" /\ now' # now

\* C24: while an attempt is in SUSTAIN, each pass of the loop appends to the
\* event's coherence_history exactly one sample, the order parameter of the
\* phases the update_network step has just produced; no other step changes
\* coherence_history, and no step changes the event's participating_nodes
\* or any config's coupling_strength.
C24_SustainOnlyAppendsSamples ==
    [][\A a \in Attempts : pc[a] = "sustain" =>
          /\ att'[a].participating_nodes = att[a].participating_nodes
          /\ \A c \in ConfigIds :
                configs'[c].coupling_strength = configs[c].coupling_strength
          /\ att'[a].coherence_history =
                IF SustainStepTaken(a)
                THEN Append(att[a].coherence_history,
                            OrderParameter(kuramoto'.oscillators))
                ELSE att[a].coherence_history]_vars

\* two passes of the sustain loop have been performed
C24_Witness ==
    \E a \in Attempts :
        /\ pc[a] = "sustain"
        /\ Len(att[a].coherence_history) = 2

-----------------------------------------------------------------------------
(* Claims on the order of _dissolve_event, checked under Spec *)

\* cur is pre after one or more "*= 0.5"
Reduced(cur, pre) == \E times \in 1..Cardinality(Nodes) : cur = halve_times(pre, times)

\* C25: _dissolve_event first reduces the coupling of every oscillator and
\* rebuilds the topology from the event's participating_nodes, without
\* touching the phases; each tail step is an update_network at dt = 5 ms on
\* that topology at the reduced coupling, followed by a yield; reset_all
\* runs only after tail step number 50 ms / dt = 10, and the attempt makes
\* no update after it.
C25_DissolveOrder ==
    /\ [](\A a \in Attempts :
            pc[a] = "dissolved" =>
                att[a].reset_done /\ att[a].tail_step = 50 \div TAIL_DT)
    /\ [][\A a \in Attempts :
            /\ (pc[a] = "dissolve" /\ pc'[a] = "halved") =>
                  /\ kuramoto' = kuramoto
                  /\ att'[a].tail_step = 0
                  /\ att'[a].topology = build_topology(tig, att[a].participating_nodes)
                  /\ \A n \in DOMAIN kuramoto.oscillators :
                        Reduced(coupling_of(configs', kuramoto.oscillators)[n],
                                coupling_of(configs, kuramoto.oscillators)[n])
            /\ (pc[a] \in {"halved", "tail"} /\ att'[a].tail_step = att[a].tail_step + 1) =>
                  /\ att[a].tail_step < 50 \div TAIL_DT
                  /\ configs' = configs
                  /\ cpu' = NoTask
                  /\ \E noise \in NoiseChoices(kuramoto.oscillators) :
                        kuramoto' = update_network(kuramoto, att[a].topology, EmptyMap,
                                                   TAIL_DT, noise, now)
            /\ (pc[a] = "tail" /\ pc'[a] = "dissolved") =>
                  /\ att[a].tail_step = 50 \div TAIL_DT
                  /\ \E phases \in [DOMAIN kuramoto.oscillators -> RandomPhases] :
                        kuramoto' = reset_all(kuramoto, phases)
            /\ (pc[a] = "dissolved" /\ pc'[a] # "dissolved") =>
                  kuramoto' = kuramoto]_vars

\* a dissolve has run through its ten tail steps to the reset at reduced
\* coupling
C25_Witness ==
    \E a \in Attempts :
        /\ pc[a] = "dissolved"
        /\ att[a].reset_done
        /\ att[a].tail_step = TAIL_STEPS
        /\ att[a].pre_coupling # EmptyMap
        /\ \A n \in DOMAIN kuramoto.oscillators \cap DOMAIN att[a].pre_coupling :
              coupling_of(configs, kuramoto.oscillators)[n] # att[a].pre_coupling[n]

-----------------------------------------------------------------------------
(* Claims on the effects of the trigger check, checked under SpecTrig *)

\* C26: a call of _check_triggers, passing or failing, leaves
\* last_esgt_time, the event history, the trigger conditions, the fabric,
\* the clock and the oscillator network as they were, so that the same check
\* made again right after it returns the same pair.
C26_CheckTriggersStateless ==
    [][(trigger_result'.called /\ trigger_result' # trigger_result) =>
          /\ UNCHANGED <<last_esgt_time, event_history, triggers, tig, kuramoto,
                         configs, now>>
          /\ \A s \in SalienceInputs :
                check_triggers(triggers', tig', last_esgt_time', event_history', s, now')
                    = check_triggers(triggers, tig, last_esgt_time, event_history, s, now)]_vars

\* a check has passed on a coordinator that has ignited before
C26_Witness ==
    /\ trigger_result.called
    /\ trigger_result.returned.success
    /\ event_history # <<>>
    /\ last_esgt_time > 0

-----------------------------------------------------------------------------
(* Claims on _build_topology, checked under SpecTopo *)

\* the positions of node k's connections that are active and lead to a
\* member of ids
KeptConnections(k, ids) ==
    {i \in DOMAIN tig.nodes[k].connections :
        /\ tig.nodes[k].connections[i].active
        /\ tig.nodes[k].connections[i].remote_node_id \in ids}

\* C27: the map _build_topology(node_ids) returns has as keys exactly the
\* members of node_ids that the fabric holds, and a key's neighbor list
\* holds exactly the remote ids of that node's active connections to
\* members of node_ids, once each; the call changes neither the fabric nor
\* node_ids.
C27_TopologyFromActiveConnections ==
    /\ [](LET ids == att["a1"].participating_nodes
              topology == att["a1"].topology
          IN  /\ DOMAIN topology = ids \cap DOMAIN tig.nodes
              /\ \A k \in DOMAIN topology :
                    /\ Range(topology[k]) =
                          {tig.nodes[k].connections[i].remote_node_id :
                              i \in KeptConnections(k, ids)}
                    /\ Len(topology[k]) = Cardinality(KeptConnections(k, ids)))
    /\ [][\A ids \in NodeIdInputs :
            (att'["a1"].participating_nodes = ids /\ att' # att) =>
                tig' = tig /\ att'["a1"].topology = build_topology(tig', ids)]_vars

\* a topology was built for {n1, n2, n3} on a fabric where n1 has an
\* inactive connection and an active one to n3, which the fabric lacks
C27_Witness ==
    /\ att["a1"].participating_nodes = Nodes \cup {"n3"}
    /\ DOMAIN att["a1"].topology = Nodes
    /\ att["a1"].topology["n1"] = <<"n3">>
    /\ Len(tig.nodes["n1"].connections) = 2

-----------------------------------------------------------------------------
(* Claims on the order of the oscillators, checked under SpecOrder *)

\* net with its oscillators registered, and so visited, in the reverse order
Reversed(net) ==
    [net EXCEPT !.order = [i \in DOMAIN net.order |-> net.order[Len(net.order) + 1 - i]]]

PhasesOf(net) == [n \in DOMAIN net.oscillators |-> net.oscillators[n].phase]

\* C28: with the arguments and the noise fixed, the phases an update_network
\* step leaves are the phases the same step leaves on the same oscillators
\* visited in the reverse order.
C28_UpdateOrderIndependent ==
    [][\A a \in UpdateNetworkInputs :
       \A noise \in NoiseChoices(kuramoto.oscillators) :
          kuramoto' = update_network(kuramoto, a.topology, a.coupling_weights,
                                     a.dt, noise, now)
          => PhasesOf(kuramoto') =
                PhasesOf(update_network(Reversed(kuramoto), a.topology,
                                        a.coupling_weights, a.dt, noise, now))]_vars

-----------------------------------------------------------------------------
(* Claims on the coupling after _dissolve_event, checked under Spec *)

\* cur and pre are the same coupling strength
SameCoupling(cur, pre) == cur.num * Pow2(pre.halvings) = pre.num * Pow2(cur.halvings)

\* C29: when _dissolve_event has completed, its final reset_all included,
\* every oscillator's coupling_strength is the one it had right before
\* _dissolve_event reduced it.
C29_CouplingRestoredAfterDissolve ==
    \A a \in Attempts :
        pc[a] = "dissolved" =>
            \A n \in DOMAIN kuramoto.oscillators \cap DOMAIN att[a].pre_coupling :
                SameCoupling(coupling_of(configs, kuramoto.oscillators)[n],
                             att[a].pre_coupling[n])

-----------------------------------------------------------------------------
(* Claims on the coherence cache, checked under SpecNet *)

\* the most two order parameters of the same phases can differ by the
\* rounding of the sine table and of the square root
RoundingSlack == 100 \div SinScale

\* C30: whatever add_oscillator, remove_oscillator, set_phase, update_network
\* and reset_all calls have been made, a get_coherence call on a network
\* that holds oscillators returns the order parameter of the oscillators and
\* phases the network holds at the call.
C30_CoherenceNeverStale ==
    DOMAIN kuramoto.oscillators # {} =>
        LET returned_coherence == get_coherence(kuramoto, now).coherence_cache
            r == OrderParameter(kuramoto.oscillators)
        IN  /\ returned_coherence # <<>>
            /\ returned_coherence[1].order_parameter \in
                  (r - RoundingSlack) .. (r + RoundingSlack)

=============================================================================
